---- MODULE Spec2Model ----
(***************************************************************************)
(* Event-driven task lifecycle of the Sylvia workspace: the task store     *)
(* (TaskManager over Postgres + Redis), the planner and assessor QStash    *)
(* workflows and the orchestrator's dispatch of events:task.               *)
(*                                                                         *)
(* SQL tables are modelled by their rows, Redis keys by their values, the  *)
(* two streams by the sequence of entries appended to them.  A call that   *)
(* awaits several collaborators in turn is modelled with one action per    *)
(* await where another invocation can observe the intermediate state.      *)
(***************************************************************************)
EXTENDS Integers, Sequences, FiniteSets, TLC

\* ------------------------------------------------------------------ bounds
StoreTasks == 2        \* rows of tasks, and entries of events:task, that the
StoreEvents == 4       \*   task store is explored to under API calls
ScoringTasks == 2      \* the same under createTask and scoreTask calls
ScoringEvents == 4
MaxHours == 2          \* largest hour figure an input carries
MaxDim == 6            \* largest dimension value a generative response carries
MaxSubtasks == 1       \* longest subtask list a judgment carries
MaxInFlight == 1       \* external createTask calls awaiting at one time
PlannerTasks == 2      \* rows of tasks, entries of events:task and planner
PlannerEvents == 3     \*   runs that the planner is explored to
MaxPlannerRuns == 1
AssessorTasks == 1     \* rows of tasks, entries of either stream and assessor
AssessorEvents == 6    \*   runs that the assessor is explored to
MaxAssessorRuns == 1
RaceEvents == 6        \* entries of either stream, and assessor runs, that
RaceRuns == 2          \*   overlapping assessor runs are explored to
MlTasks == 5           \* completed tasks the ML analyzer finds, its runs, and
MaxMlRuns == 2         \*   the longest insight list a response carries
MaxInsights == 1
MaxDays == 2
LoopEvents == 3
MaxLoops == 2
LoopRuns == 1
PipelineEvents == 6
ReplanTasks == 3       \* rows of tasks, entries of events:task and planner runs
ReplanEvents == 7      \*   that repeated planning of a task is explored to
ReplanRuns == 2

\* ------------------------------------------------------- program constants
MinDim == 1
TopDim == 5
MinOverall == 0
MaxOverall == 100
DefaultEstimate == 1
InnovatorXp == 50
MinHistory == 5
HistoryLimit == 50
RecommendationsTtl == 3600
UpPercent == 115
SubtaskLimit == 7
DownPercent == 85

Users == {"u1"}
UnknownIds == {-1}     \* an id no row of tasks carries
NULL == 0              \* SQL NULL / JS undefined for a numeric or id field
Statuses == {"todo", "in_progress", "blocked", "done", "cancelled"}

VARIABLES
    tasks,             \* table tasks: id -> row
    task_scores,       \* table task_scores: the rows, in insertion order
    taskCache,         \* ids with a Redis hash task:<id>
    userTasks,         \* ids in the sorted sets user:<u>:tasks
    userStats,         \* Redis hash user:<u>:stats
    userAchievements,  \* Redis set user:<u>:achievements
    eventsTask,        \* stream events:task
    eventsMl,          \* stream events:ml
    creating,          \* createTask calls between two awaits
    thrown,            \* errors TaskManager calls have thrown to their callers
    planner,           \* planner workflow runs
    assessor,          \* assessor workflow runs
    lastEventId,       \* orchestrator cursor into events:task
    calc,              \* the assessor's calculate-final-scores step, alone
    task_patterns,     \* table task_patterns: the rows, in insertion order
    recommendations,   \* Redis strings user:<u>:recommendations, with their expiry
    ml,                \* ML analyzer workflow runs
    velocity,          \* the analytics route's velocity trend computation, alone
    loop               \* the orchestrator's event loop

storeVars == <<tasks, task_scores, taskCache, userTasks, userStats,
               userAchievements, eventsTask, eventsMl, creating, thrown>>
agentVars == <<planner, assessor, lastEventId, loop>>
analyticsVars == <<task_patterns, recommendations, ml>>
calcVars == <<calc, velocity>>
vars == <<tasks, task_scores, taskCache, userTasks, userStats, userAchievements,
          eventsTask, eventsMl, creating, thrown, planner, assessor, lastEventId, loop,
          calc, velocity, analyticsVars>>

\* ------------------------------------------------------------ JSON objects
EmptyObject == [k \in {} |-> NULL]

\* {...a, ...b}: b's keys win
Merge(a, b) ==
    [k \in (DOMAIN a) \union (DOMAIN b) |-> IF k \in DOMAIN b THEN b[k] ELSE a[k]]

\* ------------------------------------------------------------------ events
Append2(s, a, b) == Append(Append(s, a), b)

TaskCreatedEvent(row, id) ==
    [type |-> "TASK_CREATED", taskId |-> id, userId |-> row.user_id,
     parentId |-> row.parent_id]

TaskUpdatedEvent(id, row, updates) ==
    [type |-> "TASK_UPDATED", taskId |-> id, userId |-> row.user_id,
     delta |-> updates]

TaskCompletedEvent(id, row) ==
    [type |-> "TASK_COMPLETED", taskId |-> id, userId |-> row.user_id,
     completedAt |-> row.completed_at]

TaskScoredEvent(id, row, scores) ==
    [type |-> "TASK_SCORED", taskId |-> id, userId |-> row.user_id,
     xpEarned |-> scores.xp_earned, overallScore |-> scores.overall_score]

EventsOfType(stream, ty) == {i \in 1 .. Len(stream) : stream[i].type = ty}

\* ------------------------------------------- assessor: calculate-final-scores
weights == [difficulty |-> 3, innovation |-> 3, quality |-> 4, speed |-> 2]

totalWeight ==
    weights.difficulty + weights.innovation + weights.quality + weights.speed

\* Math.round of the non-negative rational num/den: the nearest integer, halves up
MathRound(num, den) == (2 * num + den) \div (2 * den)

WeightedSum(a) ==
    a.difficulty * weights.difficulty + a.innovation * weights.innovation
    + a.quality * weights.quality + a.speed * weights.speed

\* Math.floor in place of Math.round
OverallFloor(a) == (WeightedSum(a) * 20) \div totalWeight

overall(a) == MathRound(WeightedSum(a) * 20, totalWeight)

\* the XP formula with the quality bonus taken only when no innovation bonus is
XpExclusiveBonuses(a, o, onTime, nSubtasks) ==
    MathRound(o, 10)
    + (IF a.innovation >= 5 THEN 3 ELSE IF a.quality >= 5 THEN 2 ELSE 0)
    + (IF onTime THEN 1 ELSE 0)
    + (IF nSubtasks > 0 THEN 1 ELSE 0)

xp(a, o, onTime, nSubtasks) ==
    MathRound(o, 10)
    + (IF a.innovation >= 5 THEN 3 ELSE 0)
    + (IF a.quality >= 5 THEN 2 ELSE 0)
    + (IF onTime THEN 1 ELSE 0)
    + (IF nSubtasks > 0 THEN 1 ELSE 0)

\* speedRatio >= 0.8, speedRatio = estimated_hours / actualHours (1 without estimate)
wasOnTime(estimated_hours, actualHours) ==
    IF estimated_hours = NULL THEN TRUE ELSE 10 * estimated_hours >= 8 * actualHours

\* the object scoreTask is handed by store-scores
ScoreFields(a, o, x) ==
    [difficulty |-> a.difficulty, innovation |-> a.innovation, quality |-> a.quality,
     speed |-> a.speed, overall_score |-> o, xp_earned |-> x]

\* ------------------------------------------------------ table task_scores
InRange(v, lo, hi) == v >= lo /\ v <= hi

\* the CHECK constraints of task_scores
ScoreChecksHold(s) ==
    /\ InRange(s.difficulty, MinDim, TopDim)
    /\ InRange(s.innovation, MinDim, TopDim)
    /\ InRange(s.quality, MinDim, TopDim)
    /\ InRange(s.speed, MinDim, TopDim)
    /\ InRange(s.overall_score, MinOverall, MaxOverall)

ScoreRow(id, s) ==
    [task_id |-> id, difficulty |-> s.difficulty, innovation |-> s.innovation,
     quality |-> s.quality, speed |-> s.speed, overall_score |-> s.overall_score,
     xp_earned |-> s.xp_earned]

RowsFor(rows, id) == SelectSeq(rows, LAMBDA r : r.task_id = id)

\* INSERT ... ON CONFLICT (task_id) DO NOTHING
InsertOrKeep(rows, row) ==
    IF RowsFor(rows, row.task_id) # <<>> THEN rows ELSE Append(rows, row)

\* INSERT ... ON CONFLICT (task_id) DO UPDATE SET <every column> = EXCLUDED.<column>
UpsertScore(rows, row) ==
    IF RowsFor(rows, row.task_id) # <<>>
    THEN [i \in DOMAIN rows |-> IF rows[i].task_id = row.task_id THEN row ELSE rows[i]]
    ELSE Append(rows, row)

\* ------------------------------------------------------ table task_patterns
\* the column sets of task_patterns that a PRIMARY KEY, a UNIQUE constraint or
\* a unique index covers: the primary key alone (idx_task_patterns_user_type
\* is a plain index)
PatternUniqueKeys == {{"id"}}

\* ON CONFLICT (user_id, pattern_type)
PatternConflictTarget == {"user_id", "pattern_type"}

\* the same table with a unique index on the columns the statement names
PatternKeysWithTarget == PatternUniqueKeys \union {PatternConflictTarget}

\* patternData.sample_size || 1
SampleSizeOf(patternData) ==
    IF "sample_size" \in DOMAIN patternData /\ patternData.sample_size # NULL
    THEN patternData.sample_size ELSE 1

\* the row of the INSERT; confidence_score is held in hundredths
PatternRow(userId, patternType, patternData, confidence) ==
    [user_id |-> userId, pattern_type |-> patternType, pattern_data |-> patternData,
     confidence_score |-> confidence, sample_size |-> SampleSizeOf(patternData)]

SameKey(a, b) == a.user_id = b.user_id /\ a.pattern_type = b.pattern_type

\* DO UPDATE SET pattern_data, confidence_score, sample_size = EXCLUDED.*
UpsertPattern(rows, row) ==
    IF \E i \in DOMAIN rows : SameKey(rows[i], row)
    THEN [i \in DOMAIN rows |-> IF SameKey(rows[i], row) THEN row ELSE rows[i]]
    ELSE Append(rows, row)

\* the statement is planned only when a unique index covers exactly the
\* columns of its conflict target; without one it is refused with an error,
\* whatever the table holds
StorePatternRefused(keys) == PatternConflictTarget \notin keys

\* -------------------------------------------------- TaskManager.storePattern
StorePattern(keys, userId, patternType, patternData, confidence) ==
    /\ ~StorePatternRefused(keys)
    /\ task_patterns' =
          UpsertPattern(task_patterns,
                        PatternRow(userId, patternType, patternData, confidence))

\* --------------------------------------------------- TaskManager.getPatterns
\* the rows of the user, of the one type when a type is given (NULL: every type)
getPatterns(rows, userId, patternType) ==
    SelectSeq(rows, LAMBDA row :
        /\ row.user_id = userId
        /\ patternType = NULL \/ row.pattern_type = patternType)

\* ------------------------------------------------------------ table tasks
NextId == Cardinality(DOMAIN tasks) + 1

\* the row INSERT INTO tasks (user_id, title, description, priority,
\* estimated_hours, due_at, tags, context) returns: every other column takes
\* its default, parent_id among them
NewTaskRow(id, userId, taskData) ==
    [id |-> id, user_id |-> userId, parent_id |-> NULL, status |-> "todo",
     completed_at |-> NULL, estimated_hours |-> taskData.estimated_hours,
     actual_hours |-> NULL, context |-> taskData.context]

\* an INSERT that is not awaited and has not reached the table
InsertDeferred(tbl, row) == tbl

InsertTask(tbl, row) ==
    [i \in (DOMAIN tbl) \union {row.id} |-> IF i = row.id THEN row ELSE tbl[i]]

\* UPDATE tasks SET <the defined entries of updates> WHERE id = ...
ApplyUpdates(row, updates) == Merge(row, updates)

\* updates.status === 'done' && task.completed_at
EmitsCompleted(updates, task) ==
    /\ "status" \in DOMAIN updates
    /\ updates.status = "done"
    /\ task.completed_at # NULL

SubtasksOf(id) == {t \in DOMAIN tasks : tasks[t].parent_id = id}

\* ------------------------------------------------- TaskManager.createTask
\* created.push(newTask), and the for loop's test: on to update-parent after
\* the last subtask
SubtaskCreated(run, newTask) ==
    [run EXCEPT !.created = Append(@, newTask),
                !.pc = IF Len(run.created) + 1 = Len(run.analysis.subtasks)
                       THEN "update-parent" ELSE "create-subtasks"]

\* taskData of a createTask call: with or without parent_id, with the given
\* estimated_hours
TaskDataInputs(estimates) ==
    [parent_id : {NULL} \union DOMAIN tasks, estimated_hours : estimates,
     context : {EmptyObject}]

External == 0          \* caller id of a call made by an API route

Advance(c, pc) == (creating \ {c}) \union {[c EXCEPT !.pc = pc]}

\* INSERT INTO tasks ... RETURNING *
CreateTaskInsert(caller, userId, taskData) ==
    /\ LET task == NewTaskRow(NextId, userId, taskData) IN
        /\ tasks' = InsertTask(tasks, task)
        /\ creating' = creating \union {[caller |-> caller, task |-> task, pc |-> "hset"]}

\* redis.hset(`task:${task.id}`, ...)
CreateTaskCache(c) ==
    /\ c.pc = "hset"
    /\ taskCache' = taskCache \union {c.task.id}
    /\ creating' = Advance(c, "zadd")
    /\ UNCHANGED <<tasks, task_scores, userTasks, userStats, userAchievements,
                   eventsTask, eventsMl, thrown>>
    /\ UNCHANGED <<agentVars, calcVars, analyticsVars>>

\* redis.zadd(`user:${userId}:tasks`, ...)
CreateTaskIndex(c) ==
    /\ c.pc = "zadd"
    /\ userTasks' = userTasks \union {c.task.id}
    /\ creating' = Advance(c, "xadd")
    /\ UNCHANGED <<tasks, task_scores, taskCache, userStats, userAchievements,
                   eventsTask, eventsMl, thrown>>
    /\ UNCHANGED <<agentVars, calcVars, analyticsVars>>

\* redis.xadd('events:task', {type: 'TASK_CREATED', ...}); return task
CreateTaskEmit(c) ==
    /\ c.pc = "xadd"
    /\ eventsTask' = Append(eventsTask, TaskCreatedEvent(c.task, c.task.id))
    /\ creating' = creating \ {c}
    /\ planner' = IF c.caller = External THEN planner
                  ELSE [planner EXCEPT ![c.caller] = SubtaskCreated(@, c.task)]
    /\ UNCHANGED <<tasks, task_scores, taskCache, userTasks, userStats,
                   userAchievements, eventsMl, thrown>>
    /\ UNCHANGED <<assessor, lastEventId, loop, calcVars, analyticsVars>>

\* ------------------------------------------------- TaskManager.updateTask
\* the whole call on a row that exists: UPDATE ... RETURNING *, hset, xadd
\* TASK_UPDATED, and xadd TASK_COMPLETED when the completion test holds
UpdateTask(id, updates) ==
    /\ id \in DOMAIN tasks
    /\ LET task == ApplyUpdates(tasks[id], updates) IN
        /\ tasks' = [tasks EXCEPT ![id] = task]
        /\ taskCache' = taskCache \union {id}
        /\ eventsTask' =
              IF EmitsCompleted(updates, task)
              THEN Append2(eventsTask, TaskUpdatedEvent(id, task, updates),
                           TaskCompletedEvent(id, task))
              ELSE Append(eventsTask, TaskUpdatedEvent(id, task, updates))

\* what a caller catches when task.user_id is read on rows[0] of an UPDATE
\* that matched no row
UndefinedRead(call, id) == [call |-> call, id |-> id, name |-> "TypeError"]

\* the call on an id without row: the UPDATE returns nothing, the cache hash
\* is written all the same, and reading task.user_id throws
UpdateTaskNoRow(id) ==
    /\ id \notin DOMAIN tasks
    /\ taskCache' = taskCache \union {id}
    /\ thrown' = thrown \union {UndefinedRead("updateTask", id)}
    /\ UNCHANGED <<tasks, eventsTask>>

\* -------------------------------------------------- TaskManager.scoreTask
\* the whole call when the INSERT is accepted: upsert, hincrby total_xp, xadd
ScoreTask(id, scores) ==
    /\ id \in DOMAIN tasks
    /\ ScoreChecksHold(scores)
    /\ task_scores' = UpsertScore(task_scores, ScoreRow(id, scores))
    /\ userStats' = [userStats EXCEPT ![tasks[id].user_id].total_xp = @ + scores.xp_earned]
    /\ eventsTask' = Append(eventsTask, TaskScoredEvent(id, tasks[id], scores))

\* the INSERT is refused: no row in tasks (foreign key) or a CHECK fails
ScoreTaskRefused(id, scores) == id \notin DOMAIN tasks \/ ~ScoreChecksHold(scores)

\* ------------------------------------------------------------- API routes
\* updates of a status change: the status alone, or done with its timestamp
StatusInputs ==
    {[status |-> "in_progress"], [status |-> "done"],
     [status |-> "done", completed_at |-> 1]}

\* updates that move a root task under another root task
ParentInputs(id) ==
    {[parent_id |-> p] :
        p \in {t \in (DOMAIN tasks) \ {id} :
                  tasks[id].parent_id = NULL /\ tasks[t].parent_id = NULL}}

AssessmentOf(d, i, q, s) == [difficulty |-> d, innovation |-> i, quality |-> q, speed |-> s]

ScoreInputs ==
    {ScoreFields(a, overall(a), xp(a, overall(a), TRUE, 0)) :
        a \in {AssessmentOf(1, 1, 1, 1), AssessmentOf(5, 5, 5, 5)}}

\* a route's call, taken while fewer than limit such calls are under way
ExtCreateTask(estimates, limit) ==
    /\ Cardinality({c \in creating : c.caller = External}) < limit
    /\ \E u \in Users, taskData \in TaskDataInputs(estimates) :
          CreateTaskInsert(External, u, taskData)
    /\ UNCHANGED <<task_scores, taskCache, userTasks, userStats, userAchievements,
                   eventsTask, eventsMl, thrown>>
    /\ UNCHANGED <<agentVars, calcVars, analyticsVars>>

ExtUpdateTask ==
    /\ \E id \in DOMAIN tasks : \E updates \in StatusInputs : UpdateTask(id, updates)
    /\ UNCHANGED <<task_scores, userTasks, userStats, userAchievements, eventsMl, creating, thrown>>
    /\ UNCHANGED <<agentVars, calcVars, analyticsVars>>

\* a route's call that completes a task that is not done
CompleteInputs == {[status |-> "done", completed_at |-> 1]}

ExtCompleteTask ==
    /\ \E id \in DOMAIN tasks : \E updates \in CompleteInputs :
          tasks[id].status # "done" /\ UpdateTask(id, updates)
    /\ UNCHANGED <<task_scores, userTasks, userStats, userAchievements, eventsMl, creating, thrown>>
    /\ UNCHANGED <<agentVars, calcVars, analyticsVars>>

ExtUpdateParent ==
    /\ \E id \in DOMAIN tasks : \E updates \in ParentInputs(id) : UpdateTask(id, updates)
    /\ UNCHANGED <<task_scores, userTasks, userStats, userAchievements, eventsMl, creating, thrown>>
    /\ UNCHANGED <<agentVars, calcVars, analyticsVars>>

ExtUpdateTaskNoRow ==
    /\ \E id \in UnknownIds : UpdateTaskNoRow(id)
    /\ UNCHANGED <<task_scores, userTasks, userStats, userAchievements, eventsMl, creating>>
    /\ UNCHANGED <<agentVars, calcVars, analyticsVars>>

ExtScoreTask ==
    /\ \E id \in DOMAIN tasks, scores \in ScoreInputs : ScoreTask(id, scores)
    /\ UNCHANGED <<tasks, taskCache, userTasks, userAchievements, eventsMl, creating, thrown>>
    /\ UNCHANGED <<agentVars, calcVars, analyticsVars>>

CreateTaskCacheStep == \E c \in creating : CreateTaskCache(c)

CreateTaskIndexStep == \E c \in creating : CreateTaskIndex(c)

CreateTaskEmitStep == \E c \in creating : CreateTaskEmit(c)

\* ---------------------------------------------------------- planner workflow
NoRow == [id |-> NULL]          \* result[0] of a SELECT that found nothing

Judgment(needs, subs, complexity, duration, why) ==
    [needsSubtasks |-> needs, subtasks |-> subs, estimatedComplexity |-> complexity,
     suggestedDuration |-> duration, reasoning |-> why]

\* a subtask descriptor; titled = FALSE when the judgment gives it no title
Descriptor(titled, hours) == [titled |-> titled, estimatedHours |-> hours]

\* lists of n descriptors: of one hour each, all titled or the first without
\* title, and of MaxHours hours each (nothing in the step limits the hours a
\* judgment gives)
DescriptorLists(n) ==
    {[k \in 1 .. n |-> Descriptor(TRUE, 1)],
     [k \in 1 .. n |-> Descriptor(k # 1, 1)],
     [k \in 1 .. n |-> Descriptor(TRUE, MaxHours)]}

\* what JSON.parse can give for the text between the first { and the last }:
\* a judgment that asks for no subtasks, one that asks for them with an empty
\* or missing list, and ones with 1..MaxSubtasks descriptors, with and without
\* estimatedComplexity (an absent key reads as undefined, NULL here; an absent
\* subtasks list behaves as the empty one at every use)
ParsedJudgments ==
    {Judgment(FALSE, <<>>, 3, MaxHours, "simple"),
     Judgment(TRUE, <<>>, 3, MaxHours, "complex")}
    \union {Judgment(TRUE, subs, c, MaxHours, "complex") :
              subs \in UNION {DescriptorLists(n) : n \in 1 .. MaxSubtasks}, c \in {NULL, 3}}

\* the generative backend's answers: a body without candidates, text without
\* braces, braces that do not parse, and text that parses
PlannerResponses ==
    {[kind |-> "nocandidates"], [kind |-> "text"], [kind |-> "badjson"]}
    \union {[kind |-> "json", value |-> j] : j \in ParsedJudgments}

\* lines 70-79: the analysis the step returns for a response that has text
Analysis(response) ==
    CASE response.kind = "text" -> Judgment(FALSE, <<>>, NULL, NULL, "")
      [] response.kind = "badjson" ->
            Judgment(FALSE, <<>>, NULL, NULL, "Failed to parse AI response")
      [] response.kind = "json" -> response.value

NewPlannerRun(taskId, userId) ==
    [taskId |-> taskId, userId |-> userId, pc |-> "fetch-task", task |-> NoRow,
     response |-> "", analysis |-> Judgment(FALSE, <<>>, NULL, NULL, ""),
     created |-> <<>>, result |-> [kind |-> "running", subtasksCreated |-> 0]]

\* the run is over: what it returned (or that it threw) and the response it
\* had read stay on record, its other locals are gone
Returned(run, kind, n) ==
    [NewPlannerRun(run.taskId, run.userId) EXCEPT
        !.pc = "done", !.response = run.response,
        !.result = [kind |-> kind, subtasksCreated |-> n]]

\* the guard without its parent_id test
SkipsOnlyMissing(task) == task = NoRow

\* !task || task.parent_id
SkipsPlanning(task) == task = NoRow \/ task.parent_id # NULL

\* analysis.needsSubtasks && analysis.subtasks?.length
WantsSubtasks(analysis) == analysis.needsSubtasks /\ Len(analysis.subtasks) > 0

\* step fetch-task and the skip guard
PlannerFetch(r) ==
    /\ planner[r].pc = "fetch-task"
    /\ LET id == planner[r].taskId
           task == IF id \in DOMAIN tasks THEN tasks[id] ELSE NoRow
       IN  planner' = [planner EXCEPT ![r] =
              IF SkipsPlanning(task) THEN Returned(@, "skipped", 0)
              ELSE [@ EXCEPT !.pc = "analyze-task", !.task = task]]
    /\ UNCHANGED <<storeVars, assessor, lastEventId, loop, calcVars, analyticsVars>>

\* step analyze-task, and the return of lines 141-145 when no subtasks are asked for
PlannerAnalyze(r) ==
    /\ planner[r].pc = "analyze-task"
    /\ \E response \in PlannerResponses :
          planner' = [planner EXCEPT ![r] =
              IF response.kind = "nocandidates"
              THEN Returned([@ EXCEPT !.response = response.kind], "thrown", 0)
              ELSE LET run == [@ EXCEPT !.response = response.kind,
                                        !.analysis = Analysis(response)]
                   IN  IF WantsSubtasks(run.analysis)
                       THEN [run EXCEPT !.pc = "create-subtasks"]
                       ELSE Returned(run, "success", 0)]
    /\ UNCHANGED <<storeVars, assessor, lastEventId, loop, calcVars, analyticsVars>>

\* one pass of the create-subtasks loop: the createTask call for the next descriptor
SubtaskData(run, index) ==
    [parent_id |-> run.taskId,
     estimated_hours |-> run.analysis.subtasks[index + 1].estimatedHours,
     context |-> [plannedOrder |-> index,
                  parentComplexity |-> run.analysis.estimatedComplexity]]

PlannerCreateSubtask(r) ==
    /\ planner[r].pc = "create-subtasks"
    /\ LET run == planner[r]
           index == Len(run.created)
       IN  IF run.analysis.subtasks[index + 1].titled
           THEN /\ CreateTaskInsert(r, run.userId, SubtaskData(run, index))
                /\ planner' = [planner EXCEPT ![r].pc = "createTask"]
           ELSE \* title is NOT NULL: the INSERT is refused and the step throws
                /\ planner' = [planner EXCEPT ![r] = Returned(@, "thrown", Len(run.created))]
                /\ UNCHANGED <<tasks, creating>>
    /\ UNCHANGED <<task_scores, taskCache, userTasks, userStats, userAchievements,
                   eventsTask, eventsMl, thrown>>
    /\ UNCHANGED <<assessor, lastEventId, loop, calcVars, analyticsVars>>

\* the updates of step update-parent; an undefined suggestedDuration is dropped
ParentUpdates(run) ==
    LET ctx == Merge(run.task.context,
                     [planningCompleted |-> 1,
                      complexityScore |-> run.analysis.estimatedComplexity,
                      subtaskCount |-> Len(run.created)])
    IN  IF run.analysis.suggestedDuration = NULL THEN [context |-> ctx]
        ELSE [estimated_hours |-> run.analysis.suggestedDuration, context |-> ctx]

PlannerUpdateParent(r) ==
    /\ planner[r].pc = "update-parent"
    /\ UpdateTask(planner[r].taskId, ParentUpdates(planner[r]))
    /\ planner' = [planner EXCEPT ![r].pc = "emit-planning-event"]
    /\ UNCHANGED <<task_scores, userTasks, userStats, userAchievements, eventsMl, creating, thrown>>
    /\ UNCHANGED <<assessor, lastEventId, loop, calcVars, analyticsVars>>

PlanReadyEvent(run) ==
    [type |-> "META_PLAN_READY", taskId |-> run.taskId, userId |-> run.userId,
     subtaskCount |-> Len(run.created), complexity |-> run.analysis.estimatedComplexity]

\* step emit-planning-event and the return of lines 133-138;
\* analysis.estimatedComplexity.toString() throws on undefined
PlannerEmit(r) ==
    /\ planner[r].pc = "emit-planning-event"
    /\ IF planner[r].analysis.estimatedComplexity = NULL
       THEN /\ planner' = [planner EXCEPT ![r] = Returned(@, "thrown", Len(@.created))]
            /\ UNCHANGED eventsTask
       ELSE /\ eventsTask' = Append(eventsTask, PlanReadyEvent(planner[r]))
            /\ planner' = [planner EXCEPT ![r] = Returned(@, "success", Len(@.created))]
    /\ UNCHANGED <<tasks, task_scores, taskCache, userTasks, userStats, userAchievements,
                   eventsMl, creating, thrown>>
    /\ UNCHANGED <<assessor, lastEventId, loop, calcVars, analyticsVars>>

PlannerFetchStep == \E r \in DOMAIN planner : PlannerFetch(r)

PlannerAnalyzeStep == \E r \in DOMAIN planner : PlannerAnalyze(r)

PlannerCreateSubtaskStep == \E r \in DOMAIN planner : PlannerCreateSubtask(r)

PlannerUpdateParentStep == \E r \in DOMAIN planner : PlannerUpdateParent(r)

PlannerEmitStep == \E r \in DOMAIN planner : PlannerEmit(r)

\* --------------------------------------------------------- assessor workflow
\* SELECT * FROM achievements: the slugs of the seeded rows
achievements ==
    <<"first_blood", "marathon_5", "innovator_50", "speed_demon", "perfectionist",
      "night_owl", "early_bird", "week_warrior">>

NoMetrics == [actualHours |-> NULL, wasOnTime |-> FALSE]

NoAssessment == AssessmentOf(NULL, NULL, NULL, NULL)      \* null

NoFinalScores == [overall |-> NULL, xp |-> NULL]

\* JSON.parse(jsonMatch[0]) of a response that holds a JSON object: the four
\* dimensions at the low end, at the high end and above the scale
ParsedAssessments == {AssessmentOf(d, d, d, d) : d \in {MinDim, TopDim, TopDim + 1}}

\* what the generative backend answers: a body without candidates, text without
\* a JSON object, text whose braces do not parse, text holding a JSON object
AssessorResponses ==
    {[kind |-> "nocandidates"], [kind |-> "text"], [kind |-> "badjson"]}
    \union {[kind |-> "json", value |-> a] : a \in ParsedAssessments}

\* the responses that hold an assessment within the scale
ScaleResponses ==
    {response \in AssessorResponses :
        /\ response.kind = "json"
        /\ InRange(response.value.quality, MinDim, TopDim)}

NewAssessorRun(taskId, userId) ==
    [taskId |-> taskId, userId |-> userId, pc |-> "gather-task-data", task |-> NoRow,
     subtasks |-> 0, timeMetrics |-> NoMetrics, response |-> "",
     assessment |-> NoAssessment, finalScores |-> NoFinalScores,
     totalXp |-> 0, tasksCompleted |-> 0, index |-> 0, earned |-> <<>>,
     result |-> [kind |-> "running", error |-> "", achievements |-> <<>>]]

\* the run is over: what it returned (or that it threw) and the response it
\* had read stay on record, its other locals are gone
AssessorReturned(run, kind, error) ==
    [NewAssessorRun(run.taskId, run.userId) EXCEPT
        !.pc = "done", !.response = run.response,
        !.result = [kind |-> kind, error |-> error, achievements |-> run.earned]]

\* step gather-task-data and the guard of line 39
AssessorGather(r) ==
    /\ assessor[r].pc = "gather-task-data"
    /\ LET id == assessor[r].taskId
           task == IF id \in DOMAIN tasks THEN tasks[id] ELSE NoRow
       IN  assessor' = [assessor EXCEPT ![r] =
              IF task = NoRow THEN AssessorReturned(@, "error", "Task not found")
              ELSE [@ EXCEPT !.pc = "calculate-time-metrics", !.task = task,
                             !.subtasks = Cardinality(SubtasksOf(id))]]
    /\ UNCHANGED <<storeVars, planner, lastEventId, loop, calcVars, analyticsVars>>

\* actualMs in hours: the time from start to completion, or the estimate
\* (1 hour without one) for a task without completed_at
ActualHours(task) ==
    IF task.completed_at # NULL THEN 1 .. MaxHours
    ELSE IF task.estimated_hours # NULL THEN {task.estimated_hours}
    ELSE {DefaultEstimate}

\* step calculate-time-metrics
AssessorTimeMetrics(r) ==
    /\ assessor[r].pc = "calculate-time-metrics"
    /\ \E actualHours \in ActualHours(assessor[r].task) :
          /\ UpdateTask(assessor[r].taskId, [actual_hours |-> actualHours])
          /\ assessor' = [assessor EXCEPT ![r] =
                [@ EXCEPT !.pc = "ai-assessment",
                          !.timeMetrics =
                              [actualHours |-> actualHours,
                               wasOnTime |-> wasOnTime(assessor[r].task.estimated_hours,
                                                       actualHours)]]]
    /\ UNCHANGED <<task_scores, userTasks, userStats, userAchievements, eventsMl, creating, thrown>>
    /\ UNCHANGED <<planner, lastEventId, loop, calcVars, analyticsVars>>

\* the guard without its return
AssessesAnyway(assessment) == FALSE

\* !assessment
NoAssessmentMade(assessment) == assessment = NoAssessment

\* step ai-assessment and the guard of lines 146-148
AssessorAssess(r, responses) ==
    /\ assessor[r].pc = "ai-assessment"
    /\ \E response \in responses :
          assessor' = [assessor EXCEPT ![r] =
              IF response.kind = "nocandidates"
              THEN AssessorReturned([@ EXCEPT !.response = response.kind], "thrown", "")
              ELSE LET run == [@ EXCEPT !.response = response.kind,
                                        !.assessment =
                                            IF response.kind = "json"
                                            THEN response.value ELSE NoAssessment]
                   IN  IF NoAssessmentMade(run.assessment)
                       THEN AssessorReturned(run, "error", "Failed to generate assessment")
                       ELSE [run EXCEPT !.pc = "calculate-final-scores"]]
    /\ UNCHANGED <<storeVars, planner, lastEventId, loop, calcVars, analyticsVars>>

\* step calculate-final-scores
AssessorFinalScores(r) ==
    /\ assessor[r].pc = "calculate-final-scores"
    /\ LET run == assessor[r]
           o == overall(run.assessment)
       IN  assessor' = [assessor EXCEPT ![r] =
              [@ EXCEPT !.pc = "store-scores",
                        !.finalScores =
                            [overall |-> o,
                             xp |-> xp(run.assessment, o, run.timeMetrics.wasOnTime,
                                       run.subtasks)]]]
    /\ UNCHANGED <<storeVars, planner, lastEventId, loop, calcVars, analyticsVars>>

\* step store-scores: the scoreTask call; the step throws when the INSERT is refused
AssessorStoreScores(r) ==
    /\ assessor[r].pc = "store-scores"
    /\ LET run == assessor[r]
           scores == ScoreFields(run.assessment, run.finalScores.overall,
                                 run.finalScores.xp)
       IN  IF ScoreTaskRefused(run.taskId, scores)
           THEN /\ assessor' = [assessor EXCEPT ![r] = AssessorReturned(@, "thrown", "")]
                /\ UNCHANGED <<task_scores, userStats, eventsTask>>
           ELSE /\ ScoreTask(run.taskId, scores)
                /\ assessor' = [assessor EXCEPT ![r].pc = "hgetall"]
    /\ UNCHANGED <<tasks, taskCache, userTasks, userAchievements, eventsMl, creating, thrown>>
    /\ UNCHANGED <<planner, lastEventId, loop, calcVars, analyticsVars>>

\* step check-achievements, hgetall and the two sums
AssessorReadStats(r) ==
    /\ assessor[r].pc = "hgetall"
    /\ LET stats == userStats[assessor[r].userId] IN
        assessor' = [assessor EXCEPT ![r] =
            [@ EXCEPT !.pc = "hset",
                      !.totalXp = stats.total_xp + assessor[r].finalScores.xp,
                      !.tasksCompleted = stats.tasks_completed + 1]]
    /\ UNCHANGED <<storeVars, planner, lastEventId, loop, calcVars, analyticsVars>>

\* the stats updated with atomic increments in place of the hset
AssessorIncrStats(r) ==
    /\ assessor[r].pc = "hset"
    /\ userStats' = [userStats EXCEPT ![assessor[r].userId] =
                        [total_xp |-> @.total_xp + assessor[r].finalScores.xp,
                         tasks_completed |-> @.tasks_completed + 1]]
    /\ assessor' = [assessor EXCEPT ![r] = [@ EXCEPT !.pc = "sismember", !.index = 1]]
    /\ UNCHANGED <<tasks, task_scores, taskCache, userTasks, userAchievements,
                   eventsTask, eventsMl, creating, thrown>>
    /\ UNCHANGED <<planner, lastEventId, loop, calcVars, analyticsVars>>

\* step check-achievements, hset of the two sums
AssessorWriteStats(r) ==
    /\ assessor[r].pc = "hset"
    /\ userStats' = [userStats EXCEPT ![assessor[r].userId] =
                        [total_xp |-> assessor[r].totalXp,
                         tasks_completed |-> assessor[r].tasksCompleted]]
    /\ assessor' = [assessor EXCEPT ![r] = [@ EXCEPT !.pc = "sismember", !.index = 1]]
    /\ UNCHANGED <<tasks, task_scores, taskCache, userTasks, userAchievements,
                   eventsTask, eventsMl, creating, thrown>>
    /\ UNCHANGED <<planner, lastEventId, loop, calcVars, analyticsVars>>

\* the switch over achievement.slug
shouldEarn(run, slug) ==
    CASE slug = "first_blood" -> run.tasksCompleted = 1
      [] slug = "innovator_50" ->
            run.assessment.innovation >= 4 /\ run.totalXp >= InnovatorXp
      [] slug = "speed_demon" -> run.assessment.speed >= 4 /\ run.timeMetrics.wasOnTime
      [] slug = "perfectionist" -> run.assessment.quality >= 5
      [] OTHER -> FALSE

\* on to the next achievement, or out of the loop after the last
NextAchievement(run) ==
    IF run.index = Len(achievements) THEN [run EXCEPT !.pc = "trigger-ml-update"]
    ELSE [run EXCEPT !.pc = "sismember", !.index = @ + 1]

\* one pass of the loop up to its test of shouldEarn
AssessorIsMember(r) ==
    /\ assessor[r].pc = "sismember"
    /\ LET run == assessor[r]
           slug == achievements[run.index]
           hasEarned == slug \in userAchievements[run.userId]
       IN  assessor' = [assessor EXCEPT ![r] =
              IF hasEarned \/ ~shouldEarn(run, slug) THEN NextAchievement(run)
              ELSE [run EXCEPT !.pc = "sadd"]]
    /\ UNCHANGED <<storeVars, planner, lastEventId, loop, calcVars, analyticsVars>>

\* sadd and earned.push
AssessorAdd(r) ==
    /\ assessor[r].pc = "sadd"
    /\ LET run == assessor[r]
           slug == achievements[run.index]
       IN  /\ userAchievements' =
                 [userAchievements EXCEPT ![run.userId] = @ \union {slug}]
           /\ assessor' = [assessor EXCEPT ![r] =
                 [@ EXCEPT !.pc = "xadd", !.earned = Append(@, slug)]]
    /\ UNCHANGED <<tasks, task_scores, taskCache, userTasks, userStats, eventsTask,
                   eventsMl, creating, thrown>>
    /\ UNCHANGED <<planner, lastEventId, loop, calcVars, analyticsVars>>

AchievementUnlockedEvent(run) ==
    [type |-> "ACHIEVEMENT_UNLOCKED", userId |-> run.userId,
     achievement |-> achievements[run.index]]

\* xadd ACHIEVEMENT_UNLOCKED, the end of the pass
AssessorUnlock(r) ==
    /\ assessor[r].pc = "xadd"
    /\ eventsTask' = Append(eventsTask, AchievementUnlockedEvent(assessor[r]))
    /\ assessor' = [assessor EXCEPT ![r] = NextAchievement(@)]
    /\ UNCHANGED <<tasks, task_scores, taskCache, userTasks, userStats, userAchievements,
                   eventsMl, creating, thrown>>
    /\ UNCHANGED <<planner, lastEventId, loop, calcVars, analyticsVars>>

MlTaskScoredEvent(run) ==
    [type |-> "TASK_SCORED", taskId |-> run.taskId, userId |-> run.userId,
     scores |-> run.assessment, timeMetrics |-> run.timeMetrics]

\* step trigger-ml-update and the return of lines 259-268
AssessorMlUpdate(r) ==
    /\ assessor[r].pc = "trigger-ml-update"
    /\ eventsMl' = Append(eventsMl, MlTaskScoredEvent(assessor[r]))
    /\ assessor' = [assessor EXCEPT ![r] = AssessorReturned(@, "success", "")]
    /\ UNCHANGED <<tasks, task_scores, taskCache, userTasks, userStats, userAchievements,
                   eventsTask, creating, thrown>>
    /\ UNCHANGED <<planner, lastEventId, loop, calcVars, analyticsVars>>

AssessorGatherStep == \E r \in DOMAIN assessor : AssessorGather(r)

AssessorTimeMetricsStep == \E r \in DOMAIN assessor : AssessorTimeMetrics(r)

AssessorAssessStep(responses) == \E r \in DOMAIN assessor : AssessorAssess(r, responses)

AssessorFinalScoresStep == \E r \in DOMAIN assessor : AssessorFinalScores(r)

AssessorStoreScoresStep == \E r \in DOMAIN assessor : AssessorStoreScores(r)

AssessorReadStatsStep == \E r \in DOMAIN assessor : AssessorReadStats(r)

AssessorWriteStatsStep == \E r \in DOMAIN assessor : AssessorWriteStats(r)

AssessorIsMemberStep == \E r \in DOMAIN assessor : AssessorIsMember(r)

AssessorAddStep == \E r \in DOMAIN assessor : AssessorAdd(r)

AssessorUnlockStep == \E r \in DOMAIN assessor : AssessorUnlock(r)

AssessorMlUpdateStep == \E r \in DOMAIN assessor : AssessorMlUpdate(r)

\* ------------------------------------------------------ ML analyzer workflow
JsNull == [isNull |-> TRUE]                 \* null
JsUndefined == [isUndefined |-> TRUE]       \* undefined

\* a list of the given length
ListOf(n) == [length |-> n]

\* the rows of the gather-historical-data SELECT: the user's done tasks with a
\* completion time, HistoryLimit of them at most
RecentTasks(userId) ==
    LET n == Cardinality({id \in DOMAIN tasks :
                             /\ tasks[id].user_id = userId
                             /\ tasks[id].status = "done"
                             /\ tasks[id].completed_at # NULL})
    IN  IF n > HistoryLimit THEN HistoryLimit ELSE n

\* recentTasks.length < 5 is false
EnoughHistory(recentTasks) == recentTasks >= MinHistory

\* what the generative backend answers to the insights request: a body
\* without candidates, text without a JSON object, text whose braces do not
\* parse, a JSON object without insights, one with a list of insights
InsightResponses ==
    {[kind |-> "nocandidates"], [kind |-> "text"], [kind |-> "badjson"],
     [kind |-> "json", insights |-> JsUndefined]}
    \union {[kind |-> "json", insights |-> ListOf(n)] : n \in 0 .. MaxInsights}

NewMlRun(userId) ==
    [userId |-> userId, pc |-> "gather-historical-data", recentTasks |-> 0,
     completionPatterns |-> JsNull, complexityPatterns |-> JsNull,
     predictions |-> JsNull, insights |-> ListOf(0), response |-> "",
     result |-> [kind |-> "running"]]

\* the run is over; what it computed stays on record
MlReturned(run, kind) == [run EXCEPT !.pc = "done", !.result = [kind |-> kind]]

\* step gather-historical-data
MlGather(r) ==
    /\ ml[r].pc = "gather-historical-data"
    /\ ml' = [ml EXCEPT ![r] =
          [@ EXCEPT !.pc = "analyze-completion-patterns",
                    !.recentTasks = RecentTasks(ml[r].userId)]]
    /\ UNCHANGED <<task_patterns, recommendations>>
    /\ UNCHANGED <<storeVars, agentVars, calcVars>>

\* step analyze-completion-patterns; of the statistics the sample size is kept
MlCompletion(r) ==
    /\ ml[r].pc = "analyze-completion-patterns"
    /\ ml' = [ml EXCEPT ![r] =
          [@ EXCEPT !.pc = "analyze-complexity-patterns",
                    !.completionPatterns =
                        IF EnoughHistory(ml[r].recentTasks)
                        THEN [sampleSize |-> ml[r].recentTasks]
                        ELSE JsNull]]
    /\ UNCHANGED <<task_patterns, recommendations>>
    /\ UNCHANGED <<storeVars, agentVars, calcVars>>

\* step analyze-complexity-patterns: an object whatever the rows are
MlComplexity(r) ==
    /\ ml[r].pc = "analyze-complexity-patterns"
    /\ ml' = [ml EXCEPT ![r] =
          [@ EXCEPT !.pc = "generate-predictions",
                    !.complexityPatterns = [difficultyGroups |-> ml[r].recentTasks]]]
    /\ UNCHANGED <<task_patterns, recommendations>>
    /\ UNCHANGED <<storeVars, agentVars, calcVars>>

\* step generate-predictions
MlPredictions(r) ==
    /\ ml[r].pc = "generate-predictions"
    /\ ml' = [ml EXCEPT ![r] =
          [@ EXCEPT !.pc = "update-patterns",
                    !.predictions =
                        IF ml[r].completionPatterns = JsNull THEN JsNull
                        ELSE [nextOptimalSlots |-> ListOf(1)]]]
    /\ UNCHANGED <<task_patterns, recommendations>>
    /\ UNCHANGED <<storeVars, agentVars, calcVars>>

\* confidence of optimal_scheduling, in hundredths: Math.min(sampleSize / 20, 1)
SchedulingConfidence(sampleSize) ==
    IF sampleSize >= 20 THEN 100 ELSE 5 * sampleSize

SchedulingData(run) ==
    [optimalHours |-> run.completionPatterns, predictions |-> run.predictions]

ComplexityData(run) == run.complexityPatterns

\* a storePattern call of run r, after which the run is at pc next; the step
\* throws when the statement is refused
MlStorePattern(r, keys, patternType, patternData, confidence, next) ==
    IF StorePatternRefused(keys)
    THEN /\ ml' = [ml EXCEPT ![r] = MlReturned(@, "thrown")]
         /\ UNCHANGED task_patterns
    ELSE /\ StorePattern(keys, ml[r].userId, patternType, patternData, confidence)
         /\ ml' = [ml EXCEPT ![r].pc = next]

\* step update-patterns up to its first storePattern call: for
\* optimal_scheduling when there are completion patterns, else for
\* complexity_handling
MlUpdatePatterns(r, keys) ==
    /\ ml[r].pc = "update-patterns"
    /\ IF ml[r].completionPatterns # JsNull
       THEN MlStorePattern(r, keys, "optimal_scheduling", SchedulingData(ml[r]),
                           SchedulingConfidence(ml[r].completionPatterns.sampleSize),
                           "update-patterns: complexity_handling")
       ELSE MlStorePattern(r, keys, "complexity_handling", ComplexityData(ml[r]), 80,
                           "generate-ai-insights")
    /\ UNCHANGED recommendations
    /\ UNCHANGED <<storeVars, agentVars, calcVars>>

\* step update-patterns, the call for complexity_handling after the one for
\* optimal_scheduling
MlUpdateComplexity(r, keys) ==
    /\ ml[r].pc = "update-patterns: complexity_handling"
    /\ MlStorePattern(r, keys, "complexity_handling", ComplexityData(ml[r]), 80,
                      "generate-ai-insights")
    /\ UNCHANGED recommendations
    /\ UNCHANGED <<storeVars, agentVars, calcVars>>

\* JSON.parse(jsonMatch[0]).insights, [] without a JSON object or when it
\* does not parse
InsightsOf(response) ==
    IF response.kind = "json" THEN response.insights ELSE ListOf(0)

\* step generate-ai-insights
MlInsights(r) ==
    /\ ml[r].pc = "generate-ai-insights"
    /\ IF ml[r].completionPatterns = JsNull \/ ml[r].complexityPatterns = JsNull
       THEN ml' = [ml EXCEPT ![r] =
                      [@ EXCEPT !.pc = "store-insights", !.insights = ListOf(0)]]
       ELSE \E response \in InsightResponses :
               ml' = [ml EXCEPT ![r] =
                  IF response.kind = "nocandidates"
                  THEN MlReturned([@ EXCEPT !.response = response.kind], "thrown")
                  ELSE [@ EXCEPT !.pc = "store-insights",
                                 !.response = response.kind,
                                 !.insights = InsightsOf(response)]]
    /\ UNCHANGED <<task_patterns, recommendations>>
    /\ UNCHANGED <<storeVars, agentVars, calcVars>>

InsightsData(run) ==
    [insights |-> run.insights,
     basedOnTasks |-> IF run.completionPatterns = JsNull THEN 0
                      ELSE run.completionPatterns.sampleSize]

InsightsGeneratedEvent(run) ==
    [type |-> "INSIGHTS_GENERATED", userId |-> run.userId,
     insightCount |-> run.insights.length]

\* step store-insights up to its storePattern call; insights.length throws on
\* undefined
MlStoreInsights(r, keys) ==
    /\ ml[r].pc = "store-insights"
    /\ IF ml[r].insights = JsUndefined
       THEN /\ ml' = [ml EXCEPT ![r] = MlReturned(@, "thrown")]
            /\ UNCHANGED task_patterns
       ELSE IF ml[r].insights.length > 0
       THEN MlStorePattern(r, keys, "ai_insights", InsightsData(ml[r]), 70,
                           "store-insights: xadd")
       ELSE /\ ml' = [ml EXCEPT ![r].pc = "cache-recommendations"]
            /\ UNCHANGED task_patterns
    /\ UNCHANGED recommendations
    /\ UNCHANGED <<storeVars, agentVars, calcVars>>

\* step store-insights, xadd INSIGHTS_GENERATED
MlInsightsEvent(r) ==
    /\ ml[r].pc = "store-insights: xadd"
    /\ eventsMl' = Append(eventsMl, InsightsGeneratedEvent(ml[r]))
    /\ ml' = [ml EXCEPT ![r].pc = "cache-recommendations"]
    /\ UNCHANGED <<tasks, task_scores, taskCache, userTasks, userStats, userAchievements,
                   eventsTask, creating, thrown>>
    /\ UNCHANGED <<task_patterns, recommendations>>
    /\ UNCHANGED <<agentVars, calcVars>>

\* the string of setex and its expiry
Bundle(run) ==
    [ttl |-> RecommendationsTtl,
     scheduling |-> IF run.predictions = JsNull THEN ListOf(0)
                    ELSE run.predictions.nextOptimalSlots,
     insights |-> run.insights,
     patterns |-> [completion |-> run.completionPatterns,
                   complexity |-> run.complexityPatterns]]

\* step cache-recommendations and the return of lines 284-295
MlCache(r) ==
    /\ ml[r].pc = "cache-recommendations"
    /\ recommendations' = [recommendations EXCEPT ![ml[r].userId] = Bundle(ml[r])]
    /\ ml' = [ml EXCEPT ![r] = MlReturned(@, "success")]
    /\ UNCHANGED task_patterns
    /\ UNCHANGED <<storeVars, agentVars, calcVars>>

MlGatherStep == \E r \in DOMAIN ml : MlGather(r)

MlCompletionStep == \E r \in DOMAIN ml : MlCompletion(r)

MlComplexityStep == \E r \in DOMAIN ml : MlComplexity(r)

MlPredictionsStep == \E r \in DOMAIN ml : MlPredictions(r)

MlUpdatePatternsStep(keys) == \E r \in DOMAIN ml : MlUpdatePatterns(r, keys)

MlUpdateComplexityStep(keys) == \E r \in DOMAIN ml : MlUpdateComplexity(r, keys)

MlInsightsStep == \E r \in DOMAIN ml : MlInsights(r)

MlStoreInsightsStep(keys) == \E r \in DOMAIN ml : MlStoreInsights(r, keys)

MlInsightsEventStep == \E r \in DOMAIN ml : MlInsightsEvent(r)

MlCacheStep == \E r \in DOMAIN ml : MlCache(r)

\* ------------------------------------------------------------- orchestrator
\* planner runs are explored one after the other, MaxPlannerRuns of them
PlannerFree ==
    /\ Len(planner) < MaxPlannerRuns
    /\ \A r \in DOMAIN planner : planner[r].pc = "done"

\* workflowClient.trigger of triggerPlanner: the workflow starts with the
\* event's taskId and userId
TriggerPlanner(eventData) ==
    planner' = Append(planner, NewPlannerRun(eventData.taskId, eventData.userId))

\* one pass of the for loop over the entries read from events:task, for an
\* entry whose handler is triggerPlanner
DispatchTaskCreated ==
    /\ lastEventId < Len(eventsTask)
    /\ PlannerFree
    /\ LET eventData == eventsTask[lastEventId + 1] IN
        /\ eventData.type = "TASK_CREATED"
        /\ lastEventId' = lastEventId + 1
        /\ TriggerPlanner(eventData)
    /\ UNCHANGED <<storeVars, assessor, loop, calcVars, analyticsVars>>

\* the same pass for an entry of a type without handler
DispatchUnhandled ==
    /\ lastEventId < Len(eventsTask)
    /\ eventsTask[lastEventId + 1].type \in {"TASK_UPDATED", "META_PLAN_READY",
                                            "ACHIEVEMENT_UNLOCKED"}
    /\ lastEventId' = lastEventId + 1
    /\ UNCHANGED <<storeVars, planner, assessor, loop, calcVars, analyticsVars>>

\* manualTriggerPlanner(taskId, userId)
ManualTriggerPlanner ==
    /\ PlannerFree
    /\ \E taskId \in (DOMAIN tasks) \union UnknownIds, userId \in Users :
          TriggerPlanner([taskId |-> taskId, userId |-> userId])
    /\ UNCHANGED <<storeVars, assessor, lastEventId, loop, calcVars, analyticsVars>>

\* no assessor run is under way
AssessorIdle == \A r \in DOMAIN assessor : assessor[r].pc = "done"

\* assessor runs are explored up to limit of them, one after the other unless
\* they may overlap
AssessorFree(limit, overlap) ==
    /\ Len(assessor) < limit
    /\ overlap \/ AssessorIdle

\* workflowClient.trigger of triggerAssessor
TriggerAssessor(eventData) ==
    assessor' = Append(assessor, NewAssessorRun(eventData.taskId, eventData.userId))

\* manualTriggerAssessor(taskId, userId)
ManualTriggerAssessor(limit, overlap) ==
    /\ AssessorFree(limit, overlap)
    /\ \E taskId \in (DOMAIN tasks) \union UnknownIds, userId \in Users :
          TriggerAssessor([taskId |-> taskId, userId |-> userId])
    /\ UNCHANGED <<storeVars, planner, lastEventId, loop, calcVars, analyticsVars>>

\* workflowClient.trigger of triggerMLAnalysis
TriggerMLAnalysis(eventData) == ml' = Append(ml, NewMlRun(eventData.userId))

\* manualTriggerMLAnalysis(userId)
ManualTriggerMLAnalysis ==
    /\ Len(ml) < MaxMlRuns
    /\ \E userId \in Users : TriggerMLAnalysis([userId |-> userId])
    /\ UNCHANGED <<task_patterns, recommendations>>
    /\ UNCHANGED <<storeVars, agentVars, calcVars>>

\* ------------------------------------------------ orchestrator: event loop
\* the id '$' of XREAD: only entries appended after the read was issued
Dollar == -1

\* setupEventHandlers: event type -> handler
handlers ==
    [TASK_CREATED |-> "triggerPlanner", TASK_COMPLETED |-> "triggerAssessor",
     TASK_SCORED |-> "triggerMLAnalysis", DAILY_ANALYSIS |-> "triggerDailyAnalysis"]

\* the locals of one startEventLoop call that passed its guard: lastEventId,
\* the position of the body, and for the read or the for loop it is in: the
\* length the stream had when the read was issued (after), the entry whose
\* handler is awaited (eventId) and the last entry of the batch (last)
NewLoopBody ==
    [pc |-> "while", lastEventId |-> Dollar, after |-> 0, eventId |-> 0, last |-> 0]

\* redis.xread(BLOCK 5000, STREAMS events:task lastEventId) is issued
IssueTaskRead(body) == [body EXCEPT !.pc = "xread-task", !.after = Len(eventsTask)]

\* redis.xread(BLOCK 1000, STREAMS events:ml $) is issued
IssueMlRead(body) == [body EXCEPT !.pc = "xread-ml", !.after = Len(eventsMl)]

\* the while test without its flag
LoopsForever(body, isRunning) == IssueTaskRead(body)

\* while (this.isRunning)
WhileRunning(body, isRunning) ==
    IF isRunning THEN IssueTaskRead(body) ELSE [body EXCEPT !.pc = "returned"]

\* the for loop over the entries i .. n of events:task, up to the next await:
\* the cursor moves to each entry before its handler is looked up; an entry
\* without handler is passed over, the handler of the first one that has a
\* handler is called, and after the last entry the events:ml read is issued
RECURSIVE TaskLoop(_, _, _)
TaskLoop(body, i, n) ==
    IF i > n THEN IssueMlRead(body)
    ELSE IF eventsTask[i].type \in DOMAIN handlers
         THEN [body EXCEPT !.pc = "task-handler", !.lastEventId = i,
                           !.eventId = i, !.last = n]
         ELSE TaskLoop([body EXCEPT !.lastEventId = i], i + 1, n)

\* the for loop over the entries i .. n of events:ml, up to the next await
RECURSIVE MlLoop(_, _, _, _)
MlLoop(body, i, n, isRunning) ==
    IF i > n THEN WhileRunning(body, isRunning)
    ELSE IF eventsMl[i].type = "TASK_SCORED"
         THEN [body EXCEPT !.pc = "ml-handler", !.eventId = i, !.last = n]
         ELSE MlLoop(body, i + 1, n, isRunning)

\* the entries an XREAD from id returns: those after id, or after the end of
\* the stream as it was when the read was issued
ReadFrom(body, id) == IF id = Dollar THEN body.after ELSE id

\* the stream of the entry whose handler a body awaits
AwaitedStream(body) == IF body.pc = "task-handler" THEN "events:task" ELSE "events:ml"

\* the handlers called so far, with the one a body that went on as next has
\* just called
Dispatched(next) ==
    IF next.pc \in {"task-handler", "ml-handler"}
    THEN Append(loop.dispatched, [stream |-> AwaitedStream(next), id |-> next.eventId])
    ELSE loop.dispatched

\* body k goes on as next
LoopStep(k, next) ==
    loop' = [loop EXCEPT !.bodies[k] = next, !.dispatched = Dispatched(next)]

\* startEventLoop() while isRunning is false
StartEventLoop ==
    /\ ~loop.isRunning
    /\ loop' = [loop EXCEPT !.isRunning = TRUE,
                            !.bodies = Append(@, IssueTaskRead(NewLoopBody))]
    /\ UNCHANGED <<storeVars, planner, assessor, lastEventId, calcVars, analyticsVars>>

\* stopEventLoop()
StopEventLoop ==
    /\ loop.isRunning
    /\ loop' = [loop EXCEPT !.isRunning = FALSE]
    /\ UNCHANGED <<storeVars, planner, assessor, lastEventId, calcVars, analyticsVars>>

\* the events:task read returns: its entries, or null after the timeout
TaskReadReturns(k) ==
    /\ loop.bodies[k].pc = "xread-task"
    /\ LET body == loop.bodies[k]
           from == ReadFrom(body, body.lastEventId)
       IN  LoopStep(k, TaskLoop(body, from + 1, Len(eventsTask)))
    /\ UNCHANGED <<storeVars, planner, assessor, lastEventId, calcVars, analyticsVars>>

\* what a catch logs: the stream concerned and the entry of it the failure
\* came after
Failure(stream, after) == [stream |-> stream, after |-> after]

\* either read throws: catch, console.error, and the one second delay begins
ReadFails(k) ==
    /\ loop.bodies[k].pc \in {"xread-task", "xread-ml"}
    /\ loop' = [loop EXCEPT
                   !.bodies[k].pc = "delay",
                   !.failures = @ \union
                       {IF loop.bodies[k].pc = "xread-task"
                        THEN Failure("events:task", Len(eventsTask))
                        ELSE Failure("events:ml", Len(eventsMl))}]
    /\ UNCHANGED <<storeVars, planner, assessor, lastEventId, calcVars, analyticsVars>>

\* the delay is over
DelayEnds(k) ==
    /\ loop.bodies[k].pc = "delay"
    /\ loop' = [loop EXCEPT !.bodies[k] = WhileRunning(@, loop.isRunning)]
    /\ UNCHANGED <<storeVars, planner, assessor, lastEventId, calcVars, analyticsVars>>

\* the events:ml read returns
MlReadReturns(k) ==
    /\ loop.bodies[k].pc = "xread-ml"
    /\ LET body == loop.bodies[k]
       IN  LoopStep(k, MlLoop(body, ReadFrom(body, Dollar) + 1, Len(eventsMl),
                              loop.isRunning))
    /\ UNCHANGED <<storeVars, planner, assessor, lastEventId, calcVars, analyticsVars>>

\* the entry whose handler body k awaits
Awaited(body) ==
    IF body.pc = "task-handler" THEN eventsTask[body.eventId] ELSE eventsMl[body.eventId]

\* the handler of the awaited entry: the one registered for its type on
\* events:task, triggerMLAnalysis on events:ml
AwaitedHandler(body) ==
    IF body.pc = "task-handler" THEN handlers[Awaited(body).type] ELSE "triggerMLAnalysis"

\* the for loop goes on behind the awaited entry
AfterHandler(body, isRunning) ==
    IF body.pc = "task-handler" THEN TaskLoop(body, body.eventId + 1, body.last)
    ELSE MlLoop(body, body.eventId + 1, body.last, isRunning)

\* workflowClient.trigger resolves: the workflow is started, the handler returns
TriggerResolves(k) ==
    /\ loop.bodies[k].pc \in {"task-handler", "ml-handler"}
    /\ LET eventData == Awaited(loop.bodies[k])
           handler == AwaitedHandler(loop.bodies[k])
       IN  /\ IF handler = "triggerPlanner" THEN TriggerPlanner(eventData)
              ELSE UNCHANGED planner
           /\ IF handler = "triggerAssessor" THEN TriggerAssessor(eventData)
              ELSE UNCHANGED assessor
           /\ IF handler = "triggerMLAnalysis" THEN TriggerMLAnalysis(eventData)
              ELSE UNCHANGED ml
    /\ LoopStep(k, AfterHandler(loop.bodies[k], loop.isRunning))
    /\ UNCHANGED <<storeVars, lastEventId, calcVars, task_patterns, recommendations>>

\* workflowClient.trigger rejects: the handler's catch logs, the handler returns
TriggerRejects(k) ==
    /\ loop.bodies[k].pc \in {"task-handler", "ml-handler"}
    /\ LET body == loop.bodies[k]
           next == AfterHandler(body, loop.isRunning)
       IN  loop' = [loop EXCEPT
                       !.bodies[k] = next,
                       !.dispatched = Dispatched(next),
                       !.failures = @ \union {Failure(AwaitedStream(body), body.eventId)}]
    /\ UNCHANGED <<storeVars, planner, assessor, lastEventId, calcVars, analyticsVars>>

TaskReadReturnsStep == \E k \in DOMAIN loop.bodies : TaskReadReturns(k)

ReadFailsStep == \E k \in DOMAIN loop.bodies : ReadFails(k)

DelayEndsStep == \E k \in DOMAIN loop.bodies : DelayEnds(k)

MlReadReturnsStep == \E k \in DOMAIN loop.bodies : MlReadReturns(k)

TriggerResolvesStep == \E k \in DOMAIN loop.bodies : TriggerResolves(k)

TriggerRejectsStep == \E k \in DOMAIN loop.bodies : TriggerRejects(k)

\* ------------------------------------------------------------------- Init
\* the orchestrator before startEventLoop: isRunning = false, no loop body
\* under way, no handler called yet, nothing logged by a catch
LoopStopped == [isRunning |-> FALSE, bodies |-> <<>>, dispatched |-> <<>>, failures |-> {}]

\* no string under the key
NoBundle == [ttl |-> NULL]

NoStats == [total_xp |-> 0, tasks_completed |-> 0]

InitStore ==
    /\ tasks = EmptyObject
    /\ task_scores = <<>>
    /\ taskCache = {}
    /\ userTasks = {}
    /\ userStats = [u \in Users |-> NoStats]
    /\ userAchievements = [u \in Users |-> {}]
    /\ eventsTask = <<>>
    /\ eventsMl = <<>>
    /\ creating = {}
    /\ thrown = {}
    /\ planner = <<>>
    /\ assessor = <<>>
    /\ lastEventId = 0
    /\ loop = LoopStopped
    /\ task_patterns = <<>>
    /\ recommendations = [u \in Users |-> NoBundle]
    /\ ml = <<>>

\* neither computation that is explored on its own is under way
InitIdle == calc = [pc |-> "idle"] /\ velocity = [pc |-> "idle"]

Init == InitStore /\ InitIdle

\* the exploration stops at n rows of tasks and m entries of either stream
Within(n, m) ==
    /\ Cardinality(DOMAIN tasks') <= n
    /\ Len(eventsTask') <= m
    /\ Len(eventsMl') <= m

\* the task store under createTask and updateTask calls of the API routes
Next ==
    \/ ExtCreateTask({NULL}, MaxInFlight) /\ Within(StoreTasks, StoreEvents)
    \/ CreateTaskCacheStep /\ Within(StoreTasks, StoreEvents)
    \/ CreateTaskIndexStep /\ Within(StoreTasks, StoreEvents)
    \/ CreateTaskEmitStep /\ Within(StoreTasks, StoreEvents)
    \/ ExtUpdateTask /\ Within(StoreTasks, StoreEvents)
    \/ ExtUpdateTaskNoRow /\ Within(StoreTasks, StoreEvents)

Spec == Init /\ [][Next]_vars

\* the task store under createTask and scoreTask calls
NextScoring ==
    \/ ExtCreateTask({NULL}, 1) /\ Within(ScoringTasks, ScoringEvents)
    \/ CreateTaskCacheStep /\ Within(ScoringTasks, ScoringEvents)
    \/ CreateTaskIndexStep /\ Within(ScoringTasks, ScoringEvents)
    \/ CreateTaskEmitStep /\ Within(ScoringTasks, ScoringEvents)
    \/ ExtScoreTask /\ Within(ScoringTasks, ScoringEvents)

SpecScoring == Init /\ [][NextScoring]_vars

\* the planner under createTask calls, re-parenting updateTask calls, the
\* orchestrator's dispatch and the manual trigger
NextPlanner ==
    \/ ExtCreateTask({NULL}, 1) /\ Within(PlannerTasks, PlannerEvents)
    \/ CreateTaskCacheStep /\ Within(PlannerTasks, PlannerEvents)
    \/ CreateTaskIndexStep /\ Within(PlannerTasks, PlannerEvents)
    \/ CreateTaskEmitStep /\ Within(PlannerTasks, PlannerEvents)
    \/ ExtUpdateParent /\ Within(PlannerTasks, PlannerEvents)
    \/ DispatchTaskCreated
    \/ DispatchUnhandled
    \/ ManualTriggerPlanner
    \/ PlannerFetchStep
    \/ PlannerAnalyzeStep
    \/ PlannerCreateSubtaskStep /\ Within(PlannerTasks, PlannerEvents)
    \/ PlannerUpdateParentStep /\ Within(PlannerTasks, PlannerEvents)
    \/ PlannerEmitStep /\ Within(PlannerTasks, PlannerEvents)

SpecPlanner == Init /\ [][NextPlanner]_vars

\* manualTriggerPlanner(taskId, userId) for a task a planner run was started
\* for before, once the earlier runs are over
ManualTriggerPlannerAgain ==
    /\ planner # <<>>
    /\ Len(planner) < ReplanRuns
    /\ \A r \in DOMAIN planner : planner[r].pc = "done"
    /\ \E r \in DOMAIN planner :
          TriggerPlanner([taskId |-> planner[r].taskId, userId |-> planner[r].userId])
    /\ UNCHANGED <<storeVars, assessor, lastEventId, loop, calcVars, analyticsVars>>

\* the planner run that the dispatch of TASK_CREATED starts, and manual
\* triggers for the same task after it
NextReplan ==
    \/ ExtCreateTask({NULL}, 1) /\ Within(ReplanTasks, ReplanEvents)
    \/ CreateTaskCacheStep /\ Within(ReplanTasks, ReplanEvents)
    \/ CreateTaskIndexStep /\ Within(ReplanTasks, ReplanEvents)
    \/ CreateTaskEmitStep /\ Within(ReplanTasks, ReplanEvents)
    \/ DispatchTaskCreated
    \/ ManualTriggerPlannerAgain
    \/ PlannerFetchStep
    \/ PlannerAnalyzeStep
    \/ PlannerCreateSubtaskStep /\ Within(ReplanTasks, ReplanEvents)
    \/ PlannerUpdateParentStep /\ Within(ReplanTasks, ReplanEvents)
    \/ PlannerEmitStep /\ Within(ReplanTasks, ReplanEvents)

SpecReplan == Init /\ [][NextReplan]_vars

\* the assessor steps, every store-writing one within the bounds
AssessorSteps(responses, m) ==
    \/ AssessorGatherStep
    \/ AssessorTimeMetricsStep /\ Within(AssessorTasks, m)
    \/ AssessorAssessStep(responses)
    \/ AssessorFinalScoresStep
    \/ AssessorStoreScoresStep /\ Within(AssessorTasks, m)
    \/ AssessorReadStatsStep
    \/ AssessorWriteStatsStep
    \/ AssessorIsMemberStep
    \/ AssessorAddStep
    \/ AssessorUnlockStep /\ Within(AssessorTasks, m)
    \/ AssessorMlUpdateStep /\ Within(AssessorTasks, m)

AssessorStore(estimates, m) ==
    \/ ExtCreateTask(estimates, 1) /\ Within(AssessorTasks, m)
    \/ CreateTaskCacheStep /\ Within(AssessorTasks, m)
    \/ CreateTaskIndexStep /\ Within(AssessorTasks, m)
    \/ CreateTaskEmitStep /\ Within(AssessorTasks, m)
    \/ ExtCompleteTask /\ Within(AssessorTasks, m)

\* assessor runs one after the other, createTask calls and completions between them
NextAssessor ==
    \/ AssessorIdle /\ AssessorStore({NULL, DefaultEstimate}, AssessorEvents)
    \/ ManualTriggerAssessor(MaxAssessorRuns, FALSE)
    \/ AssessorSteps(AssessorResponses, AssessorEvents)

SpecAssessor == Init /\ [][NextAssessor]_vars

\* assessor runs that overlap, started once the routes leave the store alone,
\* on responses that hold an assessment
NextAssessorRace ==
    \/ assessor = <<>> /\ AssessorStore({DefaultEstimate}, RaceEvents)
    \/ ManualTriggerAssessor(RaceRuns, TRUE)
    \/ AssessorSteps(ScaleResponses, RaceEvents)

SpecAssessorRace == Init /\ [][NextAssessorRace]_vars

\* the exploration stops at n runs of each workflow
RunsWithin(n) == Len(planner') <= n /\ Len(assessor') <= n /\ Len(ml') <= n

\* the orchestrator's loop under startEventLoop and stopEventLoop calls and
\* the createTask and completing updateTask calls of the routes
NextLoop ==
    \/ StartEventLoop /\ Len(loop.bodies) < MaxLoops
    \/ StopEventLoop
    \/ TaskReadReturnsStep
    \/ MlReadReturnsStep
    \/ ReadFailsStep
    \/ DelayEndsStep
    \/ TriggerResolvesStep /\ RunsWithin(LoopRuns)
    \/ TriggerRejectsStep
    \/ AssessorStore({DefaultEstimate}, LoopEvents)

SpecLoop == Init /\ [][NextLoop]_vars

\* the loop as the module starts it in production: one startEventLoop call,
\* never stopped
NextLoopOnce ==
    \/ StartEventLoop /\ loop.bodies = <<>>
    \/ TaskReadReturnsStep
    \/ MlReadReturnsStep
    \/ ReadFailsStep
    \/ DelayEndsStep
    \/ TriggerResolvesStep /\ RunsWithin(LoopRuns)
    \/ TriggerRejectsStep
    \/ AssessorStore({DefaultEstimate}, LoopEvents)

\* a handler's trigger call settles
TriggerSettles == TriggerRejectsStep \/ (TriggerResolvesStep /\ RunsWithin(LoopRuns))

\* the loop is started, no read fails for ever, every delay ends and every
\* trigger call settles
SpecLoopFair ==
    /\ Init
    /\ [][NextLoopOnce]_vars
    /\ WF_vars(StartEventLoop /\ loop.bodies = <<>>)
    /\ SF_vars(TaskReadReturnsStep)
    /\ SF_vars(MlReadReturnsStep)
    /\ WF_vars(DelayEndsStep)
    /\ WF_vars(TriggerSettles)

\* the generative backend answers the assessor with the lowest assessment on
\* the scale
LowResponses == {response \in ScaleResponses : response.value.quality = MinDim}

\* the loop started when the module is loaded and never stopped, its reads
\* returning, with the routes then creating and completing a task and the
\* assessor run that the dispatch of TASK_COMPLETED starts
NextLoopPipeline ==
    \/ StartEventLoop /\ loop.bodies = <<>>
    \/ TaskReadReturnsStep
    \/ MlReadReturnsStep
    \/ TriggerResolvesStep
    \/ loop.bodies # <<>> /\ AssessorStore({DefaultEstimate}, PipelineEvents)
    \/ AssessorSteps(LowResponses, PipelineEvents)

\* the loop is started and every read returns (each has a BLOCK timeout);
\* nothing bounds the time a handler's trigger call takes
SpecLoopStall ==
    /\ Init
    /\ [][NextLoopPipeline]_vars
    /\ WF_vars(StartEventLoop /\ loop.bodies = <<>>)
    /\ SF_vars(TaskReadReturnsStep)
    /\ SF_vars(MlReadReturnsStep)

\* the same, and every trigger call resolves
SpecLoopPipeline ==
    /\ Init
    /\ [][NextLoopPipeline]_vars
    /\ WF_vars(StartEventLoop /\ loop.bodies = <<>>)
    /\ SF_vars(TaskReadReturnsStep)
    /\ SF_vars(MlReadReturnsStep)
    /\ WF_vars(TriggerResolvesStep)

\* the loop started once and stopped at any moment after, never started again
NextLoopStop ==
    \/ StartEventLoop /\ loop.bodies = <<>>
    \/ StopEventLoop
    \/ TaskReadReturnsStep
    \/ MlReadReturnsStep
    \/ ReadFailsStep
    \/ DelayEndsStep
    \/ TriggerResolvesStep /\ RunsWithin(LoopRuns)
    \/ TriggerRejectsStep
    \/ AssessorStore({DefaultEstimate}, LoopEvents)

\* the same fairness as SpecLoopFair: reads return, delays end, trigger calls
\* settle
SpecLoopStop ==
    /\ Init
    /\ [][NextLoopStop]_vars
    /\ WF_vars(StartEventLoop /\ loop.bodies = <<>>)
    /\ SF_vars(TaskReadReturnsStep)
    /\ SF_vars(MlReadReturnsStep)
    /\ WF_vars(DelayEndsStep)
    /\ WF_vars(TriggerSettles)

\* --------------------------------------------------------- the ML analyzer
CompleteUpdates == [status |-> "done", completed_at |-> 1]

\* the row of a task created by a route and then completed
DoneRow(id, userId) ==
    ApplyUpdates(NewTaskRow(id, userId, [parent_id |-> NULL, estimated_hours |-> NULL,
                                         context |-> EmptyObject]),
                 CompleteUpdates)

\* the entries createTask and updateTask appended for it
DoneEvents(id, userId) ==
    <<TaskCreatedEvent(DoneRow(id, userId), id),
      TaskUpdatedEvent(id, DoneRow(id, userId), CompleteUpdates),
      TaskCompletedEvent(id, DoneRow(id, userId))>>

RECURSIVE HistoryEvents(_, _)
HistoryEvents(k, userId) ==
    IF k = 0 THEN <<>> ELSE HistoryEvents(k - 1, userId) \o DoneEvents(k, userId)

\* the store after k tasks of a user were created and completed, one by one
InitMl ==
    \E k \in 0 .. MlTasks, u \in Users :
        /\ tasks = [id \in 1 .. k |-> DoneRow(id, u)]
        /\ taskCache = 1 .. k
        /\ userTasks = 1 .. k
        /\ eventsTask = HistoryEvents(k, u)
        /\ task_scores = <<>>
        /\ userStats = [v \in Users |-> NoStats]
        /\ userAchievements = [v \in Users |-> {}]
        /\ eventsMl = <<>>
        /\ creating = {}
        /\ thrown = {}
        /\ planner = <<>>
        /\ assessor = <<>>
        /\ lastEventId = 0
        /\ loop = LoopStopped
        /\ task_patterns = <<>>
        /\ recommendations = [v \in Users |-> NoBundle]
        /\ ml = <<>>
        /\ InitIdle

\* ML analyzer runs against task_patterns as the schema declares it
NextMl ==
    \/ ManualTriggerMLAnalysis
    \/ MlGatherStep
    \/ MlCompletionStep
    \/ MlComplexityStep
    \/ MlPredictionsStep
    \/ MlUpdatePatternsStep(PatternUniqueKeys)

SpecMl == InitMl /\ [][NextMl]_vars

\* the same runs against a task_patterns with a unique index on (user_id,
\* pattern_type), where the steps after the first storePattern call are reached
NextMlKeyed ==
    \/ ManualTriggerMLAnalysis
    \/ MlGatherStep
    \/ MlCompletionStep
    \/ MlComplexityStep
    \/ MlPredictionsStep
    \/ MlUpdatePatternsStep(PatternKeysWithTarget)
    \/ MlUpdateComplexityStep(PatternKeysWithTarget)
    \/ MlInsightsStep
    \/ MlStoreInsightsStep(PatternKeysWithTarget)
    \/ MlInsightsEventStep
    \/ MlCacheStep

SpecMlKeyed == InitMl /\ [][NextMlKeyed]_vars

\* ------------------------------- two assessor runs that overlap, on two tasks
\* the two runs, and the ids of the tasks they are started for
RacingRuns == {1, 2}

\* the store after a user's routes created and completed one task per run
InitTwoDone ==
    \E u \in Users :
        /\ tasks = [id \in RacingRuns |-> DoneRow(id, u)]
        /\ taskCache = RacingRuns
        /\ userTasks = RacingRuns
        /\ eventsTask = HistoryEvents(Cardinality(RacingRuns), u)
        /\ task_scores = <<>>
        /\ userStats = [v \in Users |-> NoStats]
        /\ userAchievements = [v \in Users |-> {}]
        /\ eventsMl = <<>>
        /\ creating = {}
        /\ thrown = {}
        /\ planner = <<>>
        /\ assessor = <<>>
        /\ lastEventId = 0
        /\ loop = LoopStopped
        /\ task_patterns = <<>>
        /\ recommendations = [v \in Users |-> NoBundle]
        /\ ml = <<>>
        /\ InitIdle

\* the runs are started at any moment, each for any of the tasks, and their
\* steps interleave freely
NextStatsRace ==
    \/ ManualTriggerAssessor(Cardinality(RacingRuns), TRUE)
    \/ AssessorGatherStep
    \/ AssessorTimeMetricsStep
    \/ AssessorAssessStep(LowResponses)
    \/ AssessorFinalScoresStep
    \/ AssessorStoreScoresStep
    \/ AssessorReadStatsStep
    \/ AssessorWriteStatsStep
    \/ AssessorIsMemberStep
    \/ AssessorAddStep
    \/ AssessorUnlockStep
    \/ AssessorMlUpdateStep

SpecStatsRace == InitTwoDone /\ [][NextStatsRace]_vars

\* -------------------- the assessor's calculate-final-scores step on its own
DimInputs == 0 .. MaxDim

CalcInputs ==
    {[pc |-> "input", a |-> AssessmentOf(d, i, q, s), onTime |-> t, nSubtasks |-> n,
      overall |-> NULL, xp |-> NULL] :
        d \in DimInputs, i \in DimInputs, q \in DimInputs, s \in DimInputs,
        t \in BOOLEAN, n \in 0 .. MaxSubtasks}

InitCalc == InitStore /\ calc \in CalcInputs /\ velocity = [pc |-> "idle"]

CalculateFinalScores ==
    /\ calc.pc = "input"
    /\ calc' = [calc EXCEPT !.pc = "calculated",
                            !.overall = overall(calc.a),
                            !.xp = xp(calc.a, overall(calc.a), calc.onTime, calc.nSubtasks)]
    /\ UNCHANGED <<storeVars, agentVars, velocity, analyticsVars>>

\* the INSERT of store-scores is accepted
CalcStored ==
    /\ calc.pc = "calculated"
    /\ ScoreChecksHold(ScoreFields(calc.a, calc.overall, calc.xp))
    /\ calc' = [calc EXCEPT !.pc = "stored"]
    /\ UNCHANGED <<storeVars, agentVars, velocity, analyticsVars>>

\* the INSERT of store-scores fails a CHECK constraint
CalcRefused ==
    /\ calc.pc = "calculated"
    /\ ~ScoreChecksHold(ScoreFields(calc.a, calc.overall, calc.xp))
    /\ calc' = [calc EXCEPT !.pc = "refused"]
    /\ UNCHANGED <<storeVars, agentVars, velocity, analyticsVars>>

NextCalc == CalculateFinalScores \/ CalcStored \/ CalcRefused

SpecCalc == InitCalc /\ [][NextCalc]_vars

\* ------------------- the analytics route's velocity trend, on its own
\* the daily_count values of the rows of trendTasks
DailyCounts == {1, 2, 20, 23}

\* the rows of one four-week window, in date order
CountRows == UNION {[1 .. n -> DailyCounts] : n \in 0 .. MaxDays}

RECURSIVE Pow10(_)
Pow10(n) == IF n = 0 THEN 1 ELSE 10 * Pow10(n - 1)

\* the number of characters of a count's decimal string
RECURSIVE Digits(_)
Digits(n) == IF n < 10 THEN 1 ELSE 1 + Digits(n \div 10)

\* sum + t.daily_count: COUNT(*) is a bigint, which the driver hands over as
\* its decimal string, so + appends the count's digits to the sum so far
AddDailyCount(sum, daily_count) == sum * Pow10(Digits(daily_count)) + daily_count

\* rows.reduce((sum, t) => sum + t.daily_count, 0), read as a number
RECURSIVE ReduceCounts(_)
ReduceCounts(rows) ==
    IF rows = <<>> THEN 0
    ELSE AddDailyCount(ReduceCounts(SubSeq(rows, 1, Len(rows) - 1)), rows[Len(rows)])

\* recentAvg and olderAvg, as the fraction num / den
WindowAvg(rows) ==
    IF Len(rows) > 0 THEN [num |-> ReduceCounts(rows), den |-> Len(rows)]
    ELSE [num |-> 0, den |-> 1]

\* recentAvg > olderAvg * 1.15, in hundredths
AboveUp(recentAvg, olderAvg) ==
    100 * recentAvg.num * olderAvg.den > UpPercent * olderAvg.num * recentAvg.den

\* recentAvg < olderAvg * 0.85, in hundredths
BelowDown(recentAvg, olderAvg) ==
    100 * recentAvg.num * olderAvg.den < DownPercent * olderAvg.num * recentAvg.den

velocityTrend(recentTasks, olderTasks) ==
    IF AboveUp(WindowAvg(recentTasks), WindowAvg(olderTasks)) THEN "up"
    ELSE IF BelowDown(WindowAvg(recentTasks), WindowAvg(olderTasks)) THEN "down"
    ELSE "stable"

TrendInputs ==
    {[pc |-> "rows", recentTasks |-> r, olderTasks |-> o, velocityTrend |-> "stable"] :
        r \in CountRows, o \in CountRows}

InitTrend == InitStore /\ calc = [pc |-> "idle"] /\ velocity \in TrendInputs

\* the two averages and the trend, from the rows the query returned
ComputeVelocityTrend ==
    /\ velocity.pc = "rows"
    /\ velocity' = [velocity EXCEPT
                        !.pc = "computed",
                        !.velocityTrend = velocityTrend(velocity.recentTasks,
                                                        velocity.olderTasks)]
    /\ UNCHANGED <<storeVars, agentVars, calc, analyticsVars>>

NextTrend == ComputeVelocityTrend

SpecTrend == InitTrend /\ [][NextTrend]_vars

\* ================================================================= claims

\* C1: scoreTask is an upsert on task_scores. No task id ever has two score
\* rows, and right after any scoreTask call for a task the one row of that
\* task holds exactly the values of that call (the other tasks' rows are
\* left as they were).
C1_OneRowPerTask == \A id \in DOMAIN tasks : Len(RowsFor(task_scores, id)) <= 1

C1_ScoreTaskUpsert ==
    /\ []C1_OneRowPerTask
    /\ [][\A id \in DOMAIN tasks, scores \in ScoreInputs :
            ScoreTask(id, scores) =>
                /\ RowsFor(task_scores', id) = <<ScoreRow(id, scores)>>
                /\ \A o \in (DOMAIN tasks) \ {id} :
                      RowsFor(task_scores', o) = RowsFor(task_scores, o)]_vars

\* a task that was scored twice, with different values, and has one row
C1_Witness ==
    \E i, j \in EventsOfType(eventsTask, "TASK_SCORED") :
        /\ i < j
        /\ eventsTask[i].taskId = eventsTask[j].taskId
        /\ eventsTask[i].overallScore # eventsTask[j].overallScore
        /\ Len(RowsFor(task_scores, eventsTask[j].taskId)) = 1
        /\ RowsFor(task_scores, eventsTask[j].taskId)[1].overall_score
              = eventsTask[j].overallScore

\* C4 (as claimed): every updateTask call on an existing row appends exactly
\* one TASK_UPDATED, and one TASK_COMPLETED exactly when the call changes the
\* status from something else to done and the row has a completion timestamp;
\* a call on a row that is already done appends no TASK_COMPLETED.
NewEvents == SubSeq(eventsTask', Len(eventsTask) + 1, Len(eventsTask'))

C4_CompletedOnlyOnTransition ==
    [][\A id \in DOMAIN tasks : \A updates \in StatusInputs :
          UpdateTask(id, updates) =>
              /\ Cardinality(EventsOfType(NewEvents, "TASK_UPDATED")) = 1
              /\ Cardinality(EventsOfType(NewEvents, "TASK_COMPLETED"))
                    = IF /\ tasks[id].status # "done"
                         /\ tasks'[id].status = "done"
                         /\ tasks'[id].completed_at # NULL
                      THEN 1 ELSE 0]_vars

\* C5: createTask writes the row first. Whenever a TASK_CREATED entry for an
\* id is on events:task the row of that id is in tasks, and so it is for every
\* createTask call that has got as far as the cache mirror, the index or the
\* event, and for every id in the per-user index.
C5_RowBeforeCacheAndEvent ==
    /\ \A i \in EventsOfType(eventsTask, "TASK_CREATED") :
          eventsTask[i].taskId \in DOMAIN tasks
    /\ \A c \in creating : c.task.id \in DOMAIN tasks /\ tasks[c.task.id].user_id = c.task.user_id
    /\ userTasks \subseteq DOMAIN tasks

\* a createTask call has run to its end: row, cache hash, index and event
C5_Witness ==
    \E i \in EventsOfType(eventsTask, "TASK_CREATED") :
        /\ eventsTask[i].taskId \in DOMAIN tasks
        /\ eventsTask[i].taskId \in taskCache
        /\ eventsTask[i].taskId \in userTasks

\* C7: overall_score is the integer nearest to 20 * (3*difficulty +
\* 3*innovation + 4*quality + 2*speed) / 12 (halves up), a function of the four
\* dimensions alone; every score the table accepts has it in 0..100;
\* (5,5,5,5) gives 100 and (1,1,1,1) gives 20.
C7_OverallScore ==
    calc.pc \in {"calculated", "stored", "refused"} =>
        LET n == 20 * (3 * calc.a.difficulty + 3 * calc.a.innovation
                       + 4 * calc.a.quality + 2 * calc.a.speed)
        IN  /\ 2 * n - 24 * calc.overall <= 12
            /\ 2 * n - 24 * calc.overall > -12
            /\ calc.pc = "stored" => calc.overall >= 0 /\ calc.overall <= 100
            /\ calc.a = AssessmentOf(5, 5, 5, 5) => calc.overall = 100
            /\ calc.a = AssessmentOf(1, 1, 1, 1) => calc.overall = 20

C7_Witness ==
    /\ calc.pc = "stored"
    /\ calc.a = AssessmentOf(5, 5, 5, 5)
    /\ calc.overall = 100

\* C8: xp is round(overall / 10) plus 3 if innovation >= 5, plus 2 if
\* quality >= 5, plus 1 if on time, plus 1 if the task has a subtask, each
\* bonus on its own; innovation 5, quality 5, on time, with subtasks and
\* overall 80 give 15.
C8_XpFormula ==
    calc.pc \in {"calculated", "stored", "refused"} =>
        LET base == IF calc.overall % 10 >= 5 THEN calc.overall \div 10 + 1
                    ELSE calc.overall \div 10
            b1 == IF calc.a.innovation >= 5 THEN 3 ELSE 0
            b2 == IF calc.a.quality >= 5 THEN 2 ELSE 0
            b3 == IF calc.onTime THEN 1 ELSE 0
            b4 == IF calc.nSubtasks >= 1 THEN 1 ELSE 0
        IN  /\ calc.xp = base + b1 + b2 + b3 + b4
            /\ (/\ calc.a.innovation = 5 /\ calc.a.quality = 5 /\ calc.onTime
                /\ calc.nSubtasks >= 1 /\ calc.overall = 80) => calc.xp = 15

C8_Witness ==
    /\ calc.pc = "stored"
    /\ calc.a.innovation = 5 /\ calc.a.quality = 5
    /\ calc.onTime /\ calc.nSubtasks >= 1
    /\ calc.overall = 80
    /\ calc.xp = 15

\* C2: a planner run whose task has no row, or has parent_id set, ends at the
\* skip guard: the step that reads the task returns the skipped result with
\* zero subtasks and leaves every table, cache key and stream as it was (no
\* task created or updated, no META_PLAN_READY), and a run that has returned
\* takes no further step.
C2_PlannerSkipsSubtasks ==
    [][\A r \in DOMAIN planner :
          /\ (/\ planner[r].pc = "fetch-task"
              /\ planner'[r] # planner[r]
              /\ \/ planner[r].taskId \notin DOMAIN tasks
                 \/ tasks[planner[r].taskId].parent_id # NULL)
             => /\ planner'[r].pc = "done"
                /\ planner'[r].result = [kind |-> "skipped", subtasksCreated |-> 0]
                /\ planner'[r].created = <<>>
                /\ UNCHANGED storeVars
          /\ planner[r].pc = "done" => planner'[r] = planner[r]]_vars

\* a run on a task that has a parent has returned skipped
C2_Witness ==
    \E r \in DOMAIN planner :
        /\ planner[r].pc = "done"
        /\ planner[r].result.kind = "skipped"
        /\ planner[r].taskId \in DOMAIN tasks
        /\ tasks[planner[r].taskId].parent_id # NULL
        /\ \A i \in EventsOfType(eventsTask, "META_PLAN_READY") :
              eventsTask[i].taskId # planner[r].taskId

\* C3 (as claimed): every task a planner run has created is stored as a child
\* of the run's task, and so a planner run started for a planner-created
\* subtask is never past the skip guard.
C3_SubtasksAreChildren ==
    \A r \in DOMAIN planner :
        \A k \in DOMAIN planner[r].created :
            /\ planner[r].created[k].parent_id = planner[r].taskId
            /\ tasks[planner[r].created[k].id].parent_id = planner[r].taskId

\* C10 (as claimed): a planner run on an existing root task whose response
\* carried text (a judgment, text without JSON, or malformed JSON) never
\* fails: once returned its result is success, with zero subtasks created
\* when no judgment was parsed.
C10_PlannerNeverFails ==
    \A r \in DOMAIN planner :
        (planner[r].pc = "done" /\ planner[r].response \in {"text", "badjson", "json"})
        => /\ planner[r].result.kind = "success"
           /\ planner[r].response \in {"text", "badjson"}
                 => planner[r].result.subtasksCreated = 0

\* C6 (as claimed): first_blood is granted by the run that moves the user's
\* tasks_completed from 0 to 1 and by no other run. Every hset writes at least
\* 1, so the counter leaves 0 once: at most one run of a user is ever granted
\* first_blood, and once a user's runs are over and the counter has left 0
\* exactly one of them has been granted it, whatever the scores were.
C6_FirstBloodIffFirstCompletion ==
    \A u \in Users :
        LET earnedBy(run) == IF run.pc = "done" THEN run.result.achievements
                             ELSE run.earned
            granted == {r \in DOMAIN assessor :
                           /\ assessor[r].userId = u
                           /\ \E k \in DOMAIN earnedBy(assessor[r]) :
                                 earnedBy(assessor[r])[k] = "first_blood"}
        IN  /\ Cardinality(granted) <= 1
            /\ (AssessorIdle /\ userStats[u].tasks_completed >= 1)
                  => Cardinality(granted) = 1

C11_InsufficientHistory ==
    \A r \in DOMAIN ml :
        (ml[r].pc = "done" /\ ml[r].recentTasks < MinHistory)
        => /\ ml[r].completionPatterns = JsNull
           /\ ml[r].predictions = JsNull
           /\ ml[r].insights = ListOf(0)
           /\ getPatterns(task_patterns, ml[r].userId, "optimal_scheduling") = <<>>
           /\ ml[r].result.kind = "success"

\* C12 (as claimed): every ML analyzer run that has ended, the generative
\* backend having answered with text if it was asked, returned success after
\* writing the user's recommendation bundle with an expiry of 3600 seconds.
C12_AlwaysCaches ==
    \A r \in DOMAIN ml :
        (ml[r].pc = "done" /\ ml[r].response # "nocandidates")
        => /\ ml[r].result.kind = "success"
           /\ recommendations[ml[r].userId] # NoBundle
           /\ recommendations[ml[r].userId].ttl = RecommendationsTtl

\* C14 (as claimed): task_patterns holds one row at most per (user, type), and
\* after the storePattern call that update-patterns makes first, getPatterns
\* for that user and type returns exactly one record, with the patternData
\* and the confidence of the call.
C14_PatternUpsert ==
    [][\A r \in DOMAIN ml :
          (ml[r].pc = "update-patterns" /\ ml'[r] # ml[r])
          => LET run == ml[r]
                 scheduling == run.completionPatterns # JsNull
                 got == getPatterns(task_patterns', run.userId,
                                    IF scheduling THEN "optimal_scheduling"
                                    ELSE "complexity_handling")
             IN  /\ Len(got) = 1
                 /\ got[1].pattern_data = IF scheduling THEN SchedulingData(run)
                                          ELSE ComplexityData(run)
                 /\ got[1].confidence_score =
                       IF scheduling
                       THEN SchedulingConfidence(run.completionPatterns.sampleSize)
                       ELSE 80]_vars

\* C13: once the velocity trend is computed it is "up" exactly when the mean
\* daily count of the recent four weeks is at least 1.15 times the mean of the
\* prior four weeks, "down" exactly when it is at most 0.85 times that mean,
\* and "stable" otherwise
C13_TrendThresholds ==
    velocity.pc = "computed" =>
        LET RECURSIVE Sum(_)
            Sum(rows) == IF rows = <<>> THEN 0
                         ELSE rows[1] + Sum(SubSeq(rows, 2, Len(rows)))
            Days(rows) == IF Len(rows) > 0 THEN Len(rows) ELSE 1
            recent == velocity.recentTasks
            older == velocity.olderTasks
            atLeastUp == 100 * Sum(recent) * Days(older)
                            >= UpPercent * Sum(older) * Days(recent)
            atMostDown == 100 * Sum(recent) * Days(older)
                            <= DownPercent * Sum(older) * Days(recent)
        IN  /\ (velocity.velocityTrend = "up") <=> atLeastUp
            /\ (velocity.velocityTrend = "down") <=> atMostDown
            /\ (velocity.velocityTrend = "stable") <=> (~atLeastUp /\ ~atMostDown)

\* C15 (as claimed): when a planner run has updated its parent task, the
\* parent's estimated_hours is the judgment's suggestedDuration and its
\* context.subtaskCount is the number of rows the run created that are
\* children of that parent.
C15_ParentSummary ==
    [][\A r \in DOMAIN planner :
          (planner[r].pc = "update-parent" /\ planner'[r].pc = "emit-planning-event")
          => LET id == planner[r].taskId
                 children == {k \in DOMAIN planner[r].created :
                                tasks'[planner[r].created[k].id].parent_id = id}
             IN  /\ tasks'[id].estimated_hours = planner[r].analysis.suggestedDuration
                 /\ tasks'[id].context.subtaskCount = Cardinality(children)]_vars

\* C16 (as claimed): at every moment of a planner run, the subtasks it has
\* created are at most 7 and the estimated hours of each lie between 0.25
\* and 1.5.
C16_SubtaskLimits ==
    \A r \in DOMAIN planner :
        /\ Len(planner[r].created) <= SubtaskLimit
        /\ \A k \in DOMAIN planner[r].created :
              /\ 4 * planner[r].created[k].estimated_hours >= 1
              /\ 2 * planner[r].created[k].estimated_hours <= 3

\* C17 (as claimed): every error an updateTask call has thrown for an id
\* without row is a ValidationError.
C17_MissingRowValidationError ==
    \A e \in thrown :
        (e.call = "updateTask" /\ e.id \notin DOMAIN tasks) => e.name = "ValidationError"

\* C19 (as claimed): the handlers of events:task entries are called one at a
\* time and in stream order: no two loop bodies await such a handler at once,
\* and of two handler calls the later one is for the later entry.
C19_OneAtATimeInOrder ==
    /\ Cardinality({k \in DOMAIN loop.bodies : loop.bodies[k].pc = "task-handler"}) <= 1
    /\ \A i, j \in DOMAIN loop.dispatched :
          (/\ i < j
           /\ loop.dispatched[i].stream = "events:task"
           /\ loop.dispatched[j].stream = "events:task")
          => loop.dispatched[i].id < loop.dispatched[j].id

\* C18 (as claimed): a failure (a read that throws, a trigger call that
\* rejects) never ends a loop body, and every events:task entry that has a
\* handler and comes after a failure on that stream is eventually dispatched.
C18_FailureDoesNotHalt ==
    /\ [](\A k \in DOMAIN loop.bodies : loop.bodies[k].pc # "returned")
    /\ \A i \in 1 .. LoopEvents :
          [](( /\ i \in DOMAIN eventsTask
               /\ eventsTask[i].type \in DOMAIN handlers
               /\ \E f \in loop.failures : f.stream = "events:task" /\ f.after < i )
             => <>(\E d \in DOMAIN loop.dispatched :
                     loop.dispatched[d] = [stream |-> "events:task", id |-> i]))

\* C20 (as claimed): a user's achievement set is write-once. No step removes
\* a slug from it; a run awards a slug (sadd and earned.push) only when the
\* set does not hold it yet; and ACHIEVEMENT_UNLOCKED entries match the
\* additions: at most one per user and slug, only for a slug in the set, and
\* one for every slug of the set whose xadd is not still pending.
C20_WriteOnce ==
    [][/\ \A u \in Users : userAchievements[u] \subseteq userAchievements'[u]
       /\ \A r \in DOMAIN assessor :
             (assessor[r].pc = "sadd" /\ assessor'[r].pc = "xadd")
             => achievements[assessor[r].index] \notin userAchievements[assessor[r].userId]
       /\ \A u \in Users : \A k \in DOMAIN achievements :
             LET unlocked == {i \in EventsOfType(eventsTask', "ACHIEVEMENT_UNLOCKED") :
                                /\ eventsTask'[i].userId = u
                                /\ eventsTask'[i].achievement = achievements[k]}
                 pending == \E r \in DOMAIN assessor' :
                                /\ assessor'[r].userId = u
                                /\ assessor'[r].pc = "xadd"
                                /\ assessor'[r].index = k
             IN  /\ Cardinality(unlocked) <= 1
                 /\ unlocked # {} => achievements[k] \in userAchievements'[u]
                 /\ (achievements[k] \in userAchievements'[u] /\ ~pending)
                       => unlocked # {}]_vars

\* C21 (as claimed): under createTask and updateTask calls a task whose
\* status is done has completed_at set.
C21_DoneHasCompletedAt ==
    \A id \in DOMAIN tasks : tasks[id].status = "done" => tasks[id].completed_at # NULL

\* C22 (as claimed): a score row exists only for a completed task. Every row
\* of task_scores belongs to a task whose status is done, and XP has been
\* awarded to a user only if one of the user's tasks is done.
C22_ScoreOnlyForDone ==
    /\ \A i \in DOMAIN task_scores : tasks[task_scores[i].task_id].status = "done"
    /\ \A u \in Users :
          userStats[u].total_xp > 0
          => \E id \in DOMAIN tasks : tasks[id].user_id = u /\ tasks[id].status = "done"

\* C23 (as claimed): the cursor of a loop body is advanced to an entry's id
\* only after the dispatch of that entry has been attempted. While the
\* handler of an events:task entry has been called and has not returned, the
\* body's lastEventId is not yet the id of that entry.
C23_CursorAfterDispatch ==
    \A k \in DOMAIN loop.bodies :
        loop.bodies[k].pc = "task-handler"
        => loop.bodies[k].lastEventId # loop.bodies[k].eventId

\* a body has called the handler of an entry of the stream and the handler
\* has not returned
HandlerInFlight(stream) ==
    \E k \in DOMAIN loop.bodies :
        /\ loop.bodies[k].pc \in {"task-handler", "ml-handler"}
        /\ AwaitedStream(loop.bodies[k]) = stream

\* C24 (as claimed): the two streams are read and dispatched independently.
\* Whenever the handler of an events:task entry is in flight, a read of
\* events:ml is issued (or one of its handlers called) whether or not that
\* handler ever returns, and the same with the streams exchanged.
C24_StreamsIndependent ==
    /\ HandlerInFlight("events:task")
          ~> (\E k \in DOMAIN loop.bodies : loop.bodies[k].pc \in {"xread-ml", "ml-handler"})
    /\ HandlerInFlight("events:ml")
          ~> (\E k \in DOMAIN loop.bodies : loop.bodies[k].pc \in {"xread-task", "task-handler"})

\* C25: stopEventLoop is cooperative. The call changes the flag alone: a
\* handler in flight stays in flight and nothing is dispatched or dropped by
\* it. A body passes its while test into a new iteration only while the flag
\* is set, and a body that has returned takes no further step and dispatches
\* nothing. Once the loop is stopped and not started again, every body ends
\* the iteration it is in and returns.
C25_CooperativeStop ==
    /\ [][(loop.isRunning /\ ~loop'.isRunning)
             => /\ loop'.bodies = loop.bodies
                /\ loop'.dispatched = loop.dispatched]_vars
    /\ [][\A k \in DOMAIN loop.bodies :
             /\ (loop.bodies[k].pc # "xread-task" /\ loop'.bodies[k].pc = "xread-task")
                   => loop.isRunning
             /\ loop.bodies[k].pc = "returned" => loop'.bodies[k] = loop.bodies[k]]_vars
    /\ [][(loop.bodies # <<>> /\ \A k \in DOMAIN loop.bodies : loop.bodies[k].pc = "returned")
             => loop'.dispatched = loop.dispatched]_vars
    /\ (loop.bodies # <<>> /\ ~loop.isRunning)
          ~> (\A k \in DOMAIN loop.bodies : loop.bodies[k].pc = "returned")

\* the loop was stopped after it had called a handler whose trigger call
\* started a workflow, its body has returned, and an entry appended since
\* stays undispatched
C25_Witness ==
    /\ ~loop.isRunning
    /\ loop.bodies # <<>>
    /\ \A k \in DOMAIN loop.bodies : loop.bodies[k].pc = "returned"
    /\ loop.dispatched # <<>>
    /\ Len(planner) + Len(assessor) > 0
    /\ \E i \in DOMAIN eventsTask :
          /\ eventsTask[i].type \in DOMAIN handlers
          /\ \A d \in DOMAIN loop.dispatched : loop.dispatched[d].id # i

\* the positions of a run between its hset of the stats and its return
PastWriteStats == {"sismember", "sadd", "xadd", "trigger-ml-update"}

\* C26: two assessor runs of one user whose check-achievements steps
\* interleave lose an update. Whenever both runs have read the same stats
\* and both have written theirs, tasks_completed is the value read plus one,
\* one completion short of the two assessed, and total_xp is what one of the
\* two runs wrote, without the other run's addition.
C26_LostUpdate ==
    \A r1, r2 \in DOMAIN assessor :
        (/\ r1 # r2
         /\ assessor[r1].userId = assessor[r2].userId
         /\ assessor[r1].pc \in PastWriteStats
         /\ assessor[r2].pc \in PastWriteStats
         /\ assessor[r1].tasksCompleted = assessor[r2].tasksCompleted)
        => LET stats == userStats[assessor[r1].userId] IN
            /\ stats.tasks_completed = assessor[r1].tasksCompleted
            /\ stats.total_xp \in {assessor[r1].totalXp, assessor[r2].totalXp}

\* two runs on two different completed tasks have both stored their scores
\* and written the stats they derived from the same read: two completions
\* were assessed and the counter stands at 1
C26_Witness ==
    \E r1, r2 \in DOMAIN assessor :
        /\ assessor[r1].taskId # assessor[r2].taskId
        /\ assessor[r1].userId = assessor[r2].userId
        /\ assessor[r1].pc \in PastWriteStats
        /\ assessor[r2].pc \in PastWriteStats
        /\ assessor[r1].tasksCompleted = assessor[r2].tasksCompleted
        /\ Len(task_scores) = 2
        /\ \A i \in DOMAIN task_scores : tasks[task_scores[i].task_id].status = "done"
        /\ userStats[assessor[r1].userId].tasks_completed = 1

\* C27 (as claimed): each awarded XP amount is counted once. Whenever no
\* assessor run is under way, a user's total_xp is the sum of xp_earned over
\* the score rows of the user's tasks.
C27_XpCountedOnce ==
    AssessorIdle =>
        \A u \in Users :
            LET RECURSIVE SumXp(_)
                SumXp(rows) ==
                    IF rows = <<>> THEN 0
                    ELSE (IF tasks[rows[1].task_id].user_id = u THEN rows[1].xp_earned ELSE 0)
                         + SumXp(SubSeq(rows, 2, Len(rows)))
            IN  userStats[u].total_xp = SumXp(task_scores)

\* C28 (as claimed): no entry is lost while the loop runs. With the loop
\* started before the first entry is appended and never stopped, reads that
\* return and handlers that return, every events:task entry of a type that
\* has a handler and every TASK_SCORED entry of events:ml is eventually
\* dispatched.
C28_NoEventLost ==
    \A i \in 1 .. PipelineEvents :
        /\ [](( /\ i \in DOMAIN eventsTask
                /\ eventsTask[i].type \in DOMAIN handlers )
              => <>(\E d \in DOMAIN loop.dispatched :
                      loop.dispatched[d] = [stream |-> "events:task", id |-> i]))
        /\ [](( /\ i \in DOMAIN eventsMl
                /\ eventsMl[i].type = "TASK_SCORED" )
              => <>(\E d \in DOMAIN loop.dispatched :
                      loop.dispatched[d] = [stream |-> "events:ml", id |-> i]))

\* C29 (as claimed): at most one loop body is active at any time, whatever
\* the order of startEventLoop and stopEventLoop calls, and no entry of
\* either stream is dispatched twice.
C29_SingleLoop ==
    /\ Cardinality({k \in DOMAIN loop.bodies : loop.bodies[k].pc # "returned"}) <= 1
    /\ \A i, j \in DOMAIN loop.dispatched :
          loop.dispatched[i] = loop.dispatched[j] => i = j

\* C30 (as claimed): a root task is decomposed at most once. When a planner
\* run for a task has created subtasks, no later run for the same task
\* creates any.
C30_DecomposedOnce ==
    \A r1, r2 \in DOMAIN planner :
        (/\ r1 < r2
         /\ planner[r1].taskId = planner[r2].taskId
         /\ planner[r1].result.subtasksCreated > 0)
        => /\ planner[r2].created = <<>>
           /\ planner[r2].result.subtasksCreated = 0

====
